---- MODULE Spec2Model ----
(***************************************************************************)
(* State store, share codec and import policy of the playlist manager      *)
(* (src/src/lib/share.ts, src/unnamed/part_001, src/unnamed/part_003).      *)
(*                                                                         *)
(* Strings are sequences of one-character strings, so that trim,           *)
(* toLowerCase and concatenation are computed, not assumed.  UNDEF stands   *)
(* for the JavaScript value undefined in a string-valued position and       *)
(* UNDEF_NUM for undefined in a number-valued position.                     *)
(***************************************************************************)
EXTENDS Integers, Sequences, FiniteSets, TLC

VARIABLES
    state,    \* App's StoredStateV1 (useState in App)
    modal,    \* the apply-import modal: closed, or open with its decoded import
    nextId,   \* the identifier generator's position: ids below it were handed out
    now,      \* Date.now()
    last,     \* observation of one operation: its name, input, arguments, result tags
    codec     \* the pipeline in progress: the share codec's input, token and
              \* decoded state, the record being loaded, the add request

vars == <<state, modal, nextId, now, last, codec>>

(***************************************************************************)
(* Bounds of the model.                                                    *)
(***************************************************************************)
MaxIds == 4          \* identifiers minted in one run of the store model

(***************************************************************************)
(* JavaScript values.                                                      *)
(***************************************************************************)
UNDEF == <<"undefined">>
UNDEF_NUM == -1

\* x || y on strings: undefined and "" are falsy
Or(x, y) == IF x # UNDEF /\ x # <<>> THEN x ELSE y

\* x || y on numbers: undefined and 0 are falsy
OrNum(x, y) == IF x # UNDEF_NUM /\ x # 0 THEN x ELSE y

WhiteSpace == {" ", "\n", "\t"}

RECURSIVE trimStart(_)
trimStart(s) ==
    IF s # <<>> /\ Head(s) \in WhiteSpace THEN trimStart(Tail(s)) ELSE s

RECURSIVE trimEnd(_)
trimEnd(s) ==
    IF s # <<>> /\ s[Len(s)] \in WhiteSpace
    THEN trimEnd(SubSeq(s, 1, Len(s) - 1))
    ELSE s

trim(s) == trimEnd(trimStart(s))

lowerChar(c) ==
    CASE c = "M" -> "m"
      [] c = "F" -> "f"
      [] c = "A" -> "a"
      [] c = "B" -> "b"
      [] c = "D" -> "d"
      [] c = "H" -> "h"
      [] c = "P" -> "p"
      [] c = "S" -> "s"
      [] c = "T" -> "t"
      [] c = "W" -> "w"
      [] c = "Y" -> "y"
      [] OTHER -> c

toLowerCase(s) == [i \in 1..Len(s) |-> lowerChar(s[i])]

(***************************************************************************)
(* Identifier generator: newId(prefix) is prefix, "_" and a value that      *)
(* never repeats; n is the generator's position.                            *)
(***************************************************************************)
newId(prefix, n) == <<prefix, n>>

(***************************************************************************)
(* State store.  Every operation returns the new state together with two    *)
(* tags of the JavaScript result: same, whether the returned value is the   *)
(* very object it was given, and origin, which for each position of the     *)
(* returned playlists array names the position of the same object in the    *)
(* given state's array (0: an object that was not in the given array).      *)
(***************************************************************************)
Res(s, same, origin) == [state |-> s, same |-> same, origin |-> origin]

Ident(n) == [i \in 1..n |-> i]

Returned(s) == Res(s, TRUE, Ident(Len(s.playlists)))

Compose(r1, r2) ==
    Res(r2.state, r1.same /\ r2.same,
        [i \in 1..Len(r2.origin) |->
            IF r2.origin[i] = 0 THEN 0 ELSE r1.origin[r2.origin[i]]])

DefaultName == <<"F", "a", "v">>

defaultState(n, t) ==
    LET fav == [id |-> newId("pl", n), name |-> DefaultName, createdAt |-> t,
                items |-> <<>>]
    IN [version |-> 1, selectedPlaylistId |-> fav.id, playlists |-> <<fav>>]

\* Array.prototype.findIndex, 1-based; 0 when no element matches
findIndex(playlists, id) ==
    IF \E i \in 1..Len(playlists) : playlists[i].id = id
    THEN CHOOSE i \in 1..Len(playlists) :
            /\ playlists[i].id = id
            /\ \A j \in 1..(i - 1) : playlists[j].id # id
    ELSE 0

\* the positions deletePlaylist's filter keeps, in order
RECURSIVE keptFrom(_, _, _)
keptFrom(playlists, playlistId, i) ==
    IF i > Len(playlists) THEN <<>>
    ELSE (IF playlists[i].id # playlistId THEN <<i>> ELSE <<>>)
         \o keptFrom(playlists, playlistId, i + 1)

\* puts a playlist that is not there yet behind the others
upsertPlaylist_append(s, playlist) ==
    LET idx == findIndex(s.playlists, playlist.id)
        n == Len(s.playlists)
    IN IF idx > 0
       THEN Res([s EXCEPT !.playlists = [@ EXCEPT ![idx] = playlist]], FALSE,
                [i \in 1..n |-> IF i = idx THEN 0 ELSE i])
       ELSE Res([s EXCEPT !.playlists = @ \o <<playlist>>], FALSE,
                Ident(n) \o <<0>>)

upsertPlaylist(s, playlist) ==
    LET idx == findIndex(s.playlists, playlist.id)
        n == Len(s.playlists)
    IN IF idx > 0
       THEN Res([s EXCEPT !.playlists = [@ EXCEPT ![idx] = playlist]], FALSE,
                [i \in 1..n |-> IF i = idx THEN 0 ELSE i])
       ELSE Res([s EXCEPT !.playlists = <<playlist>> \o @], FALSE,
                <<0>> \o Ident(n))

deletePlaylist_noReseed(s, playlistId, n, t) ==
    LET kept == keptFrom(s.playlists, playlistId, 1)
        playlists == [j \in 1..Len(kept) |-> s.playlists[kept[j]]]
    IN Res([s EXCEPT !.playlists = playlists], FALSE, kept)

deletePlaylist_keepSelection(s, playlistId, n, t) ==
    LET kept == keptFrom(s.playlists, playlistId, 1)
        playlists == [j \in 1..Len(kept) |-> s.playlists[kept[j]]]
    IN IF playlists = <<>>
       THEN Res(defaultState(n, t), FALSE, <<0>>)
       ELSE Res([s EXCEPT !.playlists = playlists], FALSE, kept)

\* n and t are what newId and Date.now would return inside defaultState
deletePlaylist(s, playlistId, n, t) ==
    LET kept == keptFrom(s.playlists, playlistId, 1)
        playlists == [j \in 1..Len(kept) |-> s.playlists[kept[j]]]
    IN IF playlists = <<>>
       THEN Res(defaultState(n, t), FALSE, <<0>>)
       ELSE Res([s EXCEPT !.playlists = playlists,
                          !.selectedPlaylistId =
                              IF s.selectedPlaylistId = playlistId
                              THEN playlists[1].id ELSE @],
                FALSE, kept)

\* whether deletePlaylist called defaultState, and so newId
deleteReseeds(s, playlistId) ==
    \A i \in 1..Len(s.playlists) : s.playlists[i].id = playlistId

addVideoToPlaylist_append(s, playlistId, item) ==
    LET idx == findIndex(s.playlists, playlistId)
        pl == s.playlists[idx]
        videoKey == Or(item.videoId, trim(item.url))
        exists == \E k \in 1..Len(pl.items) :
                      Or(pl.items[k].videoId, pl.items[k].url) = videoKey
    IN IF idx = 0 THEN Returned(s)
       ELSE IF exists THEN Returned(s)
       ELSE upsertPlaylist(s, [pl EXCEPT !.items = @ \o <<item>>])

addVideoToPlaylist(s, playlistId, item) ==
    LET idx == findIndex(s.playlists, playlistId)
        pl == s.playlists[idx]
        normalizedUrl == trim(item.url)
        videoKey == Or(item.videoId, normalizedUrl)
        exists == \E k \in 1..Len(pl.items) :
                      Or(pl.items[k].videoId, pl.items[k].url) = videoKey
    IN IF idx = 0 THEN Returned(s)
       ELSE IF exists THEN Returned(s)
       ELSE upsertPlaylist(s, [pl EXCEPT !.items = <<item>> \o @])

removeVideoFromPlaylist(s, playlistId, videoItemId) ==
    LET idx == findIndex(s.playlists, playlistId)
        pl == s.playlists[idx]
        NotIt(v) == v.id # videoItemId
    IN IF idx = 0 THEN Returned(s)
       ELSE upsertPlaylist(s, [pl EXCEPT !.items = SelectSeq(@, NotIt)])

\* { ...v, ...patch }
spread(v, patch) ==
    [f \in DOMAIN v |-> IF f \in DOMAIN patch THEN patch[f] ELSE v[f]]

updateVideoInPlaylist(s, playlistId, videoItemId, patch) ==
    LET idx == findIndex(s.playlists, playlistId)
        pl == s.playlists[idx]
        items == [k \in 1..Len(pl.items) |->
                     IF pl.items[k].id = videoItemId
                     THEN spread(pl.items[k], patch)
                     ELSE pl.items[k]]
    IN IF idx = 0 THEN Returned(s)
       ELSE upsertPlaylist(s, [pl EXCEPT !.items = items])

\* goes on when source and destination are one playlist
moveVideo_sameTarget(s, fromPlaylistId, toPlaylistId, videoItemId) ==
    LET fromIdx == findIndex(s.playlists, fromPlaylistId)
        toIdx == findIndex(s.playlists, toPlaylistId)
        from == s.playlists[fromIdx]
        found == {k \in 1..Len(from.items) : from.items[k].id = videoItemId}
        item == from.items[CHOOSE k \in found : \A j \in found : k <= j]
        removed == removeVideoFromPlaylist(s, fromPlaylistId, videoItemId)
    IN IF fromIdx = 0 \/ toIdx = 0 THEN Returned(s)
       ELSE IF found = {} THEN Returned(s)
       ELSE Compose(removed, addVideoToPlaylist(removed.state, toPlaylistId, item))

moveVideo(s, fromPlaylistId, toPlaylistId, videoItemId) ==
    LET fromIdx == findIndex(s.playlists, fromPlaylistId)
        toIdx == findIndex(s.playlists, toPlaylistId)
        from == s.playlists[fromIdx]
        found == {k \in 1..Len(from.items) : from.items[k].id = videoItemId}
        item == from.items[CHOOSE k \in found : \A j \in found : k <= j]
        removed == removeVideoFromPlaylist(s, fromPlaylistId, videoItemId)
    IN IF fromPlaylistId = toPlaylistId THEN Returned(s)
       ELSE IF fromIdx = 0 \/ toIdx = 0 THEN Returned(s)
       ELSE IF found = {} THEN Returned(s)
       ELSE Compose(removed, addVideoToPlaylist(removed.state, toPlaylistId, item))

(***************************************************************************)
(* Values the operations are driven with.                                   *)
(***************************************************************************)
mkItem(id, url, videoId, title, thumbnailUrl, sourceTitle, tags, addedAt) ==
    [id |-> id, url |-> url, videoId |-> videoId, title |-> title,
     thumbnailUrl |-> thumbnailUrl, sourceTitle |-> sourceTitle,
     tags |-> tags, addedAt |-> addedAt]

mkPlaylist(id, name, createdAt, items) ==
    [id |-> id, name |-> name, createdAt |-> createdAt, items |-> items]

\* url and videoId of the items handed to the store: a bare url, the same url
\* with a leading blank, and a url with a video id
StoreItemInputs ==
    { [url |-> <<"x">>, videoId |-> UNDEF],
      [url |-> <<" ", "x">>, videoId |-> UNDEF],
      [url |-> <<"y">>, videoId |-> <<"a">>] }

\* Partial<VideoItem> patches the store is driven with
StorePatches ==
    { [videoId |-> <<"a">>] }

NoPlaylistId == <<"pl", 0>>
NoItemId == <<"v", 0>>

PlaylistIds(s) == {s.playlists[i].id : i \in 1..Len(s.playlists)}

ItemsOf(s) ==
    UNION {{s.playlists[i].items[k] : k \in 1..Len(s.playlists[i].items)} :
              i \in 1..Len(s.playlists)}

ItemIds(s) == {v.id : v \in ItemsOf(s)}

NoModal == [type |-> "none"]
NoCodec == [pc |-> "idle"]
NoLast == [op |-> "none"]

Did(op, pre, args, r) ==
    [op |-> op, pre |-> pre, args |-> args, same |-> r.same, origin |-> r.origin]

(***************************************************************************)
(* The store driven directly: every operation with every argument, also     *)
(* identifiers the state does not hold.  A run may observe one operation:   *)
(* it then records the operation in last and ends there, so that every      *)
(* application of every operation is the last step of some run.             *)
(***************************************************************************)
StoreInit ==
    /\ state = defaultState(1, 1)
    /\ nextId = 2
    /\ now = 1
    /\ last = NoLast
    /\ modal = NoModal
    /\ codec = NoCodec

StoreApply(op, args, r) ==
    /\ last = NoLast
    /\ state' = r.state
    /\ last' \in {NoLast, Did(op, state, args, r)}
    /\ UNCHANGED <<modal, codec>>

StoreUpsert ==
    /\ nextId <= MaxIds
    /\ LET pl == mkPlaylist(newId("pl", nextId), <<"m">>, now, <<>>)
       IN StoreApply("upsertPlaylist", [playlist |-> pl], upsertPlaylist(state, pl))
    /\ nextId' = nextId + 1
    /\ UNCHANGED now

StoreDelete ==
    \E pid \in PlaylistIds(state) \cup {NoPlaylistId} :
        /\ deleteReseeds(state, pid) => nextId <= MaxIds
        /\ StoreApply("deletePlaylist", [playlistId |-> pid],
                      deletePlaylist(state, pid, nextId, now))
        /\ nextId' = IF deleteReseeds(state, pid) THEN nextId + 1 ELSE nextId
        /\ UNCHANGED now

StoreAdd ==
    \E pid \in PlaylistIds(state) \cup {NoPlaylistId}, in \in StoreItemInputs :
        /\ nextId <= MaxIds
        /\ LET item == mkItem(newId("v", nextId), in.url, in.videoId, UNDEF,
                              UNDEF, UNDEF, <<>>, now)
           IN StoreApply("addVideoToPlaylist", [playlistId |-> pid, item |-> item],
                         addVideoToPlaylist(state, pid, item))
        /\ nextId' = nextId + 1
        /\ UNCHANGED now

StoreRemove ==
    \E pid \in PlaylistIds(state) \cup {NoPlaylistId},
       vid \in ItemIds(state) \cup {NoItemId} :
        /\ StoreApply("removeVideoFromPlaylist",
                      [playlistId |-> pid, videoItemId |-> vid],
                      removeVideoFromPlaylist(state, pid, vid))
        /\ UNCHANGED <<nextId, now>>

StoreUpdate ==
    \E pid \in PlaylistIds(state) \cup {NoPlaylistId},
       vid \in ItemIds(state) \cup {NoItemId},
       patch \in StorePatches :
        /\ StoreApply("updateVideoInPlaylist",
                      [playlistId |-> pid, videoItemId |-> vid, patch |-> patch],
                      updateVideoInPlaylist(state, pid, vid, patch))
        /\ UNCHANGED <<nextId, now>>

StoreMove ==
    \E from \in PlaylistIds(state) \cup {NoPlaylistId},
       to \in PlaylistIds(state) \cup {NoPlaylistId},
       vid \in ItemIds(state) \cup {NoItemId} :
        /\ StoreApply("moveVideo",
                      [fromPlaylistId |-> from, toPlaylistId |-> to,
                       videoItemId |-> vid],
                      moveVideo(state, from, to, vid))
        /\ UNCHANGED <<nextId, now>>

StoreNext ==
    \/ StoreUpsert
    \/ StoreDelete
    \/ StoreAdd
    \/ StoreRemove
    \/ StoreUpdate
    \/ StoreMove

SpecStore == StoreInit /\ [][StoreNext]_vars

(***************************************************************************)
(* The store on the heap.  The operations above compute values; here the    *)
(* same code is followed object by object, to see which objects it writes.  *)
(* cells is the heap, a sequence of objects addressed by position; an       *)
(* object literal, a spread, [...a], filter and map allocate a new cell, an *)
(* assignment or unshift writes the cell it is applied to.  An operation    *)
(* returns the heap after the call and the address it returns.              *)
(***************************************************************************)
stateCell(playlists, selectedPlaylistId) ==
    [kind |-> "state", version |-> 1, playlists |-> playlists,
     selectedPlaylistId |-> selectedPlaylistId]

arrayCell(elems) == [kind |-> "array", elems |-> elems]

playlistCell(id, name, createdAt, items) ==
    [kind |-> "playlist", id |-> id, name |-> name, createdAt |-> createdAt,
     items |-> items]

itemCell(v) == [kind |-> "item", value |-> v]

Ran(cells, ret) == [cells |-> cells, ret |-> ret]

\* the last cell allocated
Top(cells) == Len(cells)

\* the addresses of a playlists array: state.playlists
playlistsAt(cells, s) == cells[cells[s].playlists].elems

\* findIndex((p) => p.id === id) on an array of playlist addresses, 1-based;
\* 0 when no element matches
findIndexH(cells, arr, id) ==
    IF \E i \in 1..Len(arr) : cells[arr[i]].id = id
    THEN CHOOSE i \in 1..Len(arr) :
            /\ cells[arr[i]].id = id
            /\ \A j \in 1..(i - 1) : cells[arr[j]].id # id
    ELSE 0

\* state.playlists.find((p) => p.id === playlistId): its address, 0 if none
findH(cells, s, playlistId) ==
    LET arr == playlistsAt(cells, s)
        idx == findIndexH(cells, arr, playlistId)
    IN IF idx = 0 THEN 0 ELSE arr[idx]

defaultStateH(cells, n, t) ==
    LET c1 == Append(cells, arrayCell(<<>>))
        c2 == Append(c1, playlistCell(newId("pl", n), DefaultName, t, Top(c1)))
        c3 == Append(c2, arrayCell(<<Top(c2)>>))
        c4 == Append(c3, stateCell(Top(c3), newId("pl", n)))
    IN Ran(c4, Top(c4))

\* writes the array of the given state instead of a copy
upsertPlaylistH_inPlace(cells, s, playlist) ==
    LET arr == playlistsAt(cells, s)
        idx == findIndexH(cells, arr, cells[playlist].id)
        target == cells[s].playlists
        c2 == [cells EXCEPT ![target] =
                  arrayCell(IF idx > 0 THEN [arr EXCEPT ![idx] = playlist]
                            ELSE <<playlist>> \o arr)]
        c3 == Append(c2, [cells[s] EXCEPT !.playlists = target])
    IN Ran(c3, Top(c3))

upsertPlaylistH(cells, s, playlist) ==
    LET arr == playlistsAt(cells, s)
        idx == findIndexH(cells, arr, cells[playlist].id)
        c1 == Append(cells, arrayCell(arr))
        copy == Top(c1)
        c2 == [c1 EXCEPT ![copy] =
                  arrayCell(IF idx > 0 THEN [arr EXCEPT ![idx] = playlist]
                            ELSE <<playlist>> \o arr)]
        c3 == Append(c2, [cells[s] EXCEPT !.playlists = copy])
    IN Ran(c3, Top(c3))

deletePlaylistH(cells, s, playlistId, n, t) ==
    LET arr == playlistsAt(cells, s)
        Kept(a) == cells[a].id # playlistId
        c1 == Append(cells, arrayCell(SelectSeq(arr, Kept)))
        playlists == Top(c1)
        kept == c1[playlists].elems
        c2 == Append(c1, [cells[s] EXCEPT
                  !.playlists = playlists,
                  !.selectedPlaylistId =
                      IF @ = playlistId THEN c1[kept[1]].id ELSE @])
    IN IF kept = <<>> THEN defaultStateH(c1, n, t) ELSE Ran(c2, Top(c2))

addVideoToPlaylistH(cells, s, playlistId, item) ==
    LET pl == findH(cells, s, playlistId)
        items == cells[cells[pl].items].elems
        normalizedUrl == trim(cells[item].value.url)
        videoKey == Or(cells[item].value.videoId, normalizedUrl)
        exists == \E k \in 1..Len(items) :
                      Or(cells[items[k]].value.videoId, cells[items[k]].value.url)
                          = videoKey
        c1 == Append(cells, arrayCell(<<item>> \o items))
        c2 == Append(c1, [cells[pl] EXCEPT !.items = Top(c1)])
    IN IF pl = 0 THEN Ran(cells, s)
       ELSE IF exists THEN Ran(cells, s)
       ELSE upsertPlaylistH(c2, s, Top(c2))

removeVideoFromPlaylistH(cells, s, playlistId, videoItemId) ==
    LET pl == findH(cells, s, playlistId)
        NotIt(a) == cells[a].value.id # videoItemId
        c1 == Append(cells, arrayCell(SelectSeq(cells[cells[pl].items].elems, NotIt)))
        c2 == Append(c1, [cells[pl] EXCEPT !.items = Top(c1)])
    IN IF pl = 0 THEN Ran(cells, s)
       ELSE upsertPlaylistH(c2, s, Top(c2))

\* pl.items.map((v) => (v.id === videoItemId ? { ...v, ...patch } : v)), from
\* position k on: the heap with the new items, and the addresses mapped to
RECURSIVE mapItemsH(_, _, _, _, _)
mapItemsH(cells, items, k, videoItemId, patch) ==
    IF k > Len(items) THEN Ran(cells, <<>>)
    ELSE LET v == cells[items[k]].value
             hit == v.id = videoItemId
             c1 == IF hit THEN Append(cells, itemCell(spread(v, patch)))
                   ELSE cells
             rest == mapItemsH(c1, items, k + 1, videoItemId, patch)
         IN Ran(rest.cells, <<IF hit THEN Top(c1) ELSE items[k]>> \o rest.ret)

updateVideoInPlaylistH(cells, s, playlistId, videoItemId, patch) ==
    LET pl == findH(cells, s, playlistId)
        mapped == mapItemsH(cells, cells[cells[pl].items].elems, 1,
                            videoItemId, patch)
        c1 == Append(mapped.cells, arrayCell(mapped.ret))
        c2 == Append(c1, [cells[pl] EXCEPT !.items = Top(c1)])
    IN IF pl = 0 THEN Ran(cells, s)
       ELSE upsertPlaylistH(c2, s, Top(c2))

moveVideoH(cells, s, fromPlaylistId, toPlaylistId, videoItemId) ==
    LET from == findH(cells, s, fromPlaylistId)
        to == findH(cells, s, toPlaylistId)
        items == cells[cells[from].items].elems
        found == {k \in 1..Len(items) : cells[items[k]].value.id = videoItemId}
        item == items[CHOOSE k \in found : \A j \in found : k <= j]
        next == removeVideoFromPlaylistH(cells, s, fromPlaylistId, videoItemId)
    IN IF fromPlaylistId = toPlaylistId THEN Ran(cells, s)
       ELSE IF from = 0 \/ to = 0 THEN Ran(cells, s)
       ELSE IF found = {} THEN Ran(cells, s)
       ELSE addVideoToPlaylistH(next.cells, next.ret, toPlaylistId, item)

\* the value at an address
playlistAtH(cells, a) ==
    LET items == cells[cells[a].items].elems
    IN mkPlaylist(cells[a].id, cells[a].name, cells[a].createdAt,
                  [k \in 1..Len(items) |-> cells[items[k]].value])

stateAtH(cells, s) ==
    LET arr == playlistsAt(cells, s)
    IN [version |-> cells[s].version,
        playlists |-> [i \in 1..Len(arr) |-> playlistAtH(cells, arr[i])],
        selectedPlaylistId |-> cells[s].selectedPlaylistId]

\* a state value laid out on an empty heap: for each playlist its items,
\* its items array and the playlist, then the playlists array and the state
RECURSIVE layPlaylistsH(_, _, _)
layPlaylistsH(cells, playlists, i) ==
    IF i > Len(playlists) THEN Ran(cells, <<>>)
    ELSE LET pl == playlists[i]
             n == Len(cells)
             c1 == cells \o [k \in 1..Len(pl.items) |-> itemCell(pl.items[k])]
             c2 == Append(c1, arrayCell([k \in 1..Len(pl.items) |-> n + k]))
             c3 == Append(c2, playlistCell(pl.id, pl.name, pl.createdAt, Top(c2)))
             rest == layPlaylistsH(c3, playlists, i + 1)
         IN Ran(rest.cells, <<Top(c3)>> \o rest.ret)

layStateH(s) ==
    LET laid == layPlaylistsH(<<>>, s.playlists, 1)
        c1 == Append(laid.cells, arrayCell(laid.ret))
        c2 == Append(c1, stateCell(Top(c1), s.selectedPlaylistId))
    IN Ran(c2, Top(c2))

HeapMaxIds == 3   \* identifiers minted in one run of the heap model

\* one call of a store operation on the laid-out state: before is the heap
\* at the call (the state and the arguments), given the state's address, r
\* the heap after the call and the address returned
HeapApply(op, args, before, given, r) ==
    /\ last = NoLast
    /\ state' = stateAtH(r.cells, r.ret)
    /\ last' \in {NoLast,
                  [op |-> op, args |-> args, before |-> before, given |-> given,
                   after |-> r.cells, ret |-> r.ret]}
    /\ UNCHANGED <<modal, codec>>

HeapUpsert ==
    /\ nextId <= HeapMaxIds
    /\ LET h == layStateH(state)
           c1 == Append(h.cells, arrayCell(<<>>))
           c2 == Append(c1, playlistCell(newId("pl", nextId), <<"m">>, now, Top(c1)))
       IN HeapApply("upsertPlaylist", [playlist |-> Top(c2)], c2, h.ret,
                    upsertPlaylistH(c2, h.ret, Top(c2)))
    /\ nextId' = nextId + 1
    /\ UNCHANGED now

HeapDelete ==
    \E pid \in PlaylistIds(state) \cup {NoPlaylistId} :
        /\ deleteReseeds(state, pid) => nextId <= HeapMaxIds
        /\ LET h == layStateH(state)
           IN HeapApply("deletePlaylist", [playlistId |-> pid], h.cells, h.ret,
                        deletePlaylistH(h.cells, h.ret, pid, nextId, now))
        /\ nextId' = IF deleteReseeds(state, pid) THEN nextId + 1 ELSE nextId
        /\ UNCHANGED now

HeapAdd ==
    \E pid \in PlaylistIds(state) \cup {NoPlaylistId}, in \in StoreItemInputs :
        /\ nextId <= HeapMaxIds
        /\ LET h == layStateH(state)
               item == mkItem(newId("v", nextId), in.url, in.videoId, UNDEF,
                              UNDEF, UNDEF, <<>>, now)
               c1 == Append(h.cells, itemCell(item))
           IN HeapApply("addVideoToPlaylist",
                        [playlistId |-> pid, item |-> Top(c1)], c1, h.ret,
                        addVideoToPlaylistH(c1, h.ret, pid, Top(c1)))
        /\ nextId' = nextId + 1
        /\ UNCHANGED now

HeapRemove ==
    \E pid \in PlaylistIds(state) \cup {NoPlaylistId},
       vid \in ItemIds(state) \cup {NoItemId} :
        /\ LET h == layStateH(state)
           IN HeapApply("removeVideoFromPlaylist",
                        [playlistId |-> pid, videoItemId |-> vid], h.cells, h.ret,
                        removeVideoFromPlaylistH(h.cells, h.ret, pid, vid))
        /\ UNCHANGED <<nextId, now>>

HeapUpdate ==
    \E pid \in PlaylistIds(state) \cup {NoPlaylistId},
       vid \in ItemIds(state) \cup {NoItemId},
       patch \in StorePatches :
        /\ LET h == layStateH(state)
           IN HeapApply("updateVideoInPlaylist",
                        [playlistId |-> pid, videoItemId |-> vid, patch |-> patch],
                        h.cells, h.ret,
                        updateVideoInPlaylistH(h.cells, h.ret, pid, vid, patch))
        /\ UNCHANGED <<nextId, now>>

HeapMove ==
    \E from \in PlaylistIds(state) \cup {NoPlaylistId},
       to \in PlaylistIds(state) \cup {NoPlaylistId},
       vid \in ItemIds(state) \cup {NoItemId} :
        /\ LET h == layStateH(state)
           IN HeapApply("moveVideo",
                        [fromPlaylistId |-> from, toPlaylistId |-> to,
                         videoItemId |-> vid], h.cells, h.ret,
                        moveVideoH(h.cells, h.ret, from, to, vid))
        /\ UNCHANGED <<nextId, now>>

HeapNext ==
    \/ HeapUpsert
    \/ HeapDelete
    \/ HeapAdd
    \/ HeapRemove
    \/ HeapUpdate
    \/ HeapMove

SpecHeap == StoreInit /\ [][HeapNext]_vars

(***************************************************************************)
(* Share codec.  A token is the version prefix and the data after it.  The  *)
(* data is what base64UrlDecode and pako.inflateRaw accept (kind            *)
(* "deflated", holding the text they return) or not (kind "garbage"); the   *)
(* text is what JSON.parse accepts (kind "json", holding the value) or not. *)
(* JSON.stringify leaves out the properties whose value is undefined and    *)
(* reading a property that is left out gives undefined, so a payload keeps  *)
(* UNDEF for them.                                                          *)
(***************************************************************************)
UNDEF_LIST == <<UNDEF>>

V1Prefix == <<"v", "1", ".">>

ImportedLabel == <<"I", "m", "p">>

shareItem_titleOnly(it, includeThumbnails) ==
    [u |-> it.url,
     y |-> Or(it.videoId, UNDEF),
     t |-> Or(it.title, UNDEF),
     g |-> IF Len(it.tags) > 0 THEN it.tags ELSE UNDEF_LIST,
     a |-> it.addedAt,
     h |-> IF includeThumbnails THEN it.thumbnailUrl ELSE UNDEF]

shareItem_withThumbnail(it, includeThumbnails) ==
    [u |-> it.url,
     y |-> Or(it.videoId, UNDEF),
     t |-> Or(Or(it.title, it.sourceTitle), UNDEF),
     g |-> IF Len(it.tags) > 0 THEN it.tags ELSE UNDEF_LIST,
     a |-> it.addedAt,
     h |-> it.thumbnailUrl]

shareItem(it, includeThumbnails) ==
    [u |-> it.url,
     y |-> Or(it.videoId, UNDEF),
     t |-> Or(Or(it.title, it.sourceTitle), UNDEF),
     g |-> IF Len(it.tags) > 0 THEN it.tags ELSE UNDEF_LIST,
     a |-> it.addedAt,
     h |-> IF includeThumbnails THEN it.thumbnailUrl ELSE UNDEF]

sharePlaylist(pl, includeThumbnails) ==
    [n |-> pl.name,
     c |-> pl.createdAt,
     i |-> [k \in 1..Len(pl.items) |-> shareItem(pl.items[k], includeThumbnails)]]

\* the options are a record that has the fields given: Boolean(undefined)
\* is false, and no scope is scope "all"
includeThumbnailsOf(opts) ==
    "includeThumbnails" \in DOMAIN opts /\ opts.includeThumbnails

scopeOf(opts) == IF "scope" \in DOMAIN opts THEN opts.scope ELSE "all"

encodeShareFromState(s, opts) ==
    LET IsSelected(pl) == pl.id = s.selectedPlaylistId
        playlists == IF scopeOf(opts) = "selected"
                     THEN SelectSeq(s.playlists, IsSelected)
                     ELSE s.playlists
        payload == [v |-> 1,
                    isArray |-> TRUE,
                    p |-> [j \in 1..Len(playlists) |->
                              sharePlaylist(playlists[j], includeThumbnailsOf(opts))]]
    IN [prefix |-> V1Prefix,
        data |-> [kind |-> "deflated", text |-> [kind |-> "json", value |-> payload]]]

\* the identifier newId returns for playlist j of the payload: one is minted
\* for each playlist, then one for each of its items, in order
RECURSIVE playlistIdAt(_, _, _)
playlistIdAt(p, j, n) ==
    IF j = 1 THEN n ELSE playlistIdAt(p, j - 1, n) + 1 + Len(p[j - 1].i)

mintedBy(p) ==
    LET RECURSIVE sum(_)
        sum(j) == IF j = 0 THEN 0 ELSE sum(j - 1) + 1 + Len(p[j].i)
    IN sum(Len(p))

decodeItem_stampNow(it, id, t) ==
    [id |-> id,
     url |-> it.u,
     videoId |-> it.y,
     title |-> it.t,
     thumbnailUrl |-> it.h,
     sourceTitle |-> UNDEF,
     tags |-> IF it.g # UNDEF_LIST THEN it.g ELSE <<>>,
     addedAt |-> t]

decodeItem(it, id, t) ==
    [id |-> id,
     url |-> it.u,
     videoId |-> it.y,
     title |-> it.t,
     thumbnailUrl |-> it.h,
     sourceTitle |-> UNDEF,
     tags |-> IF it.g # UNDEF_LIST THEN it.g ELSE <<>>,
     addedAt |-> OrNum(it.a, t)]

decodePlaylists(p, n, t) ==
    [j \in 1..Len(p) |->
        LET playlistId == playlistIdAt(p, j, n)
        IN [id |-> newId("pl", playlistId),
            name |-> Or(p[j].n, ImportedLabel),
            createdAt |-> OrNum(p[j].c, t),
            items |-> [k \in 1..Len(p[j].i) |->
                          decodeItem(p[j].i[k], newId("v", playlistId + k), t)]]]

\* thrown: the Error or the library's exception; minted: calls of newId made
Thrown == [ok |-> FALSE, minted |-> 0]

decodeShareToState_anyVersion(encoded, n, t) ==
    IF encoded.prefix # V1Prefix \/ encoded.data.kind = "empty" THEN Thrown
    ELSE IF encoded.data.kind # "deflated" THEN Thrown
    ELSE IF encoded.data.text.kind # "json" THEN Thrown
    ELSE LET payload == encoded.data.text.value
         IN IF ~payload.isArray THEN Thrown
            ELSE [ok |-> TRUE,
                  state |-> [version |-> 1,
                             playlists |-> decodePlaylists(payload.p, n, t),
                             selectedPlaylistId |->
                                 IF Len(payload.p) > 0
                                 THEN newId("pl", n)
                                 ELSE newId("pl", n + mintedBy(payload.p))],
                  minted |-> mintedBy(payload.p)
                             + (IF Len(payload.p) > 0 THEN 0 ELSE 1)]

\* n and t are the generator's position and Date.now() at the call
decodeShareToState(encoded, n, t) ==
    IF encoded.prefix # V1Prefix \/ encoded.data.kind = "empty" THEN Thrown
    ELSE IF encoded.data.kind # "deflated" THEN Thrown
    ELSE IF encoded.data.text.kind # "json" THEN Thrown
    ELSE LET payload == encoded.data.text.value
         IN IF payload.v # 1 \/ ~payload.isArray THEN Thrown
            ELSE [ok |-> TRUE,
                  state |-> [version |-> 1,
                             playlists |-> decodePlaylists(payload.p, n, t),
                             selectedPlaylistId |->
                                 IF Len(payload.p) > 0
                                 THEN newId("pl", n)
                                 ELSE newId("pl", n + mintedBy(payload.p))],
                  minted |-> mintedBy(payload.p)
                             + (IF Len(payload.p) > 0 THEN 0 ELSE 1)]

(***************************************************************************)
(* The codec driven directly: a collection is encoded with some options     *)
(* and the token decoded again.                                             *)
(***************************************************************************)
MaxSharePlaylists == 2   \* playlists of an encoded collection
MaxShareItems == 2       \* items of one of its playlists

\* items of an encoded collection (without their id): titled with tags and
\* thumbnail; known by its share-target title only; bare
ShareItemInputs ==
    { mkItem(UNDEF, <<"x">>, UNDEF, <<"T">>, <<"h">>, <<"S">>,
             << <<"t">>, <<"u">> >>, 1),
      mkItem(UNDEF, <<"y">>, <<"a">>, UNDEF, UNDEF, <<"S">>, <<>>, 2),
      mkItem(UNDEF, <<" ", "x">>, <<>>, <<>>, UNDEF, UNDEF, << <<"t">> >>, 2) }

SeqsUpTo(S, n) == UNION {[1..m -> S] : m \in 0..n}

\* playlist j of a collection whose playlists hold the given items: the ids
\* are those newId gave out, one per playlist and one per item
shareInputState(itemss) ==
    LET base(j) == (j - 1) * (MaxShareItems + 1)
    IN [version |-> 1,
        selectedPlaylistId |-> newId("pl", base(Len(itemss)) + 1),
        playlists |->
            [j \in 1..Len(itemss) |->
                mkPlaylist(newId("pl", base(j) + 1),
                           IF j = 1 THEN DefaultName ELSE <<"M">>,
                           j,
                           [k \in 1..Len(itemss[j]) |->
                               [itemss[j][k] EXCEPT
                                   !.id = newId("v", base(j) + 1 + k)]])]]

ShareInputStates ==
    {shareInputState(itemss) :
        itemss \in SeqsUpTo(SeqsUpTo(ShareItemInputs, MaxShareItems),
                            MaxSharePlaylists) \ {<<>>}}

\* both options given, and each one left out
ShareEncodeOptions ==
    [scope : {"all", "selected"}, includeThumbnails : BOOLEAN]
    \cup { [scope |-> "selected"], [includeThumbnails |-> TRUE] }

CodecInit ==
    /\ state \in ShareInputStates
    /\ nextId = MaxSharePlaylists * (MaxShareItems + 1) + 1
    /\ now = 3
    /\ last = NoLast
    /\ modal = NoModal
    /\ codec = NoCodec

CodecEncode ==
    /\ codec.pc = "idle"
    /\ \E opts \in ShareEncodeOptions :
          codec' = [pc |-> "encoded", opts |-> opts,
                    encoded |-> encodeShareFromState(state, opts)]
    /\ UNCHANGED <<state, modal, nextId, now, last>>

CodecDecode ==
    /\ codec.pc = "encoded"
    /\ LET r == decodeShareToState(codec.encoded, nextId, now)
       IN /\ codec' = [pc |-> "decoded", opts |-> codec.opts,
                       encoded |-> codec.encoded, decoded |-> r]
          /\ nextId' = nextId + r.minted
    /\ UNCHANGED <<state, modal, now, last>>

CodecNext ==
    \/ CodecEncode
    \/ CodecDecode

SpecCodec == CodecInit /\ [][CodecNext]_vars

(***************************************************************************)
(* The application (App in src/unnamed/part_001).                           *)
(*                                                                         *)
(* A JSON document that should hold a collection is a record of what the    *)
(* readers look at: whether the text parses, the version, whether           *)
(* playlists is an array and its elements, and selectedPlaylistId with      *)
(* whether it is a string (UNDEF: the property is missing).                 *)
(***************************************************************************)
playlistOf(s, id) == s.playlists[findIndex(s.playlists, id)]

Threw == <<"TypeError">>

\* throws when the selection names no playlist and there is no playlist
pickDefaultPlaylistId(s) ==
    IF \E i \in 1..Len(s.playlists) : s.playlists[i].id = s.selectedPlaylistId
    THEN s.selectedPlaylistId
    ELSE IF Len(s.playlists) > 0 THEN s.playlists[1].id ELSE Threw

isStoredStateV1(x) ==
    x.isObject /\ x.version = 1 /\ x.isArray /\ x.selectedIsString

\* returns a record that is accepted with its selection as stored
loadStoredState_keepSelection(raw, n, t) ==
    IF raw.kind = "absent" THEN defaultState(n, t)
    ELSE IF raw.kind # "json" THEN defaultState(n, t)
    ELSE IF ~isStoredStateV1(raw) THEN defaultState(n, t)
    ELSE IF Len(raw.playlists) = 0 THEN defaultState(n, t)
    ELSE [version |-> 1,
          playlists |-> raw.playlists,
          selectedPlaylistId |-> raw.selectedPlaylistId]

\* raw: localStorage's item; n and t as for defaultState
loadStoredState(raw, n, t) ==
    IF raw.kind = "absent" THEN defaultState(n, t)
    ELSE IF raw.kind # "json" THEN defaultState(n, t)
    ELSE IF ~isStoredStateV1(raw) THEN defaultState(n, t)
    ELSE IF Len(raw.playlists) = 0 THEN defaultState(n, t)
    ELSE [version |-> 1,
          playlists |-> raw.playlists,
          selectedPlaylistId |->
              IF \E i \in 1..Len(raw.playlists) :
                    raw.playlists[i].id = raw.selectedPlaylistId
              THEN raw.selectedPlaylistId
              ELSE raw.playlists[1].id]

\* whether loadStoredState called defaultState, and so newId
loadSeeds(raw) ==
    \/ raw.kind # "json"
    \/ ~isStoredStateV1(raw)
    \/ Len(raw.playlists) = 0

\* what importJson's reader.onload leaves for setState: ok is FALSE in the
\* catch branch, where setState is not called
Caught == [ok |-> FALSE]

importJson_acceptEmpty(file) ==
    IF file.kind # "json" THEN Caught
    ELSE IF ~file.isObject \/ file.version # 1 \/ ~file.isArray THEN Caught
    ELSE [ok |-> TRUE,
          state |-> [version |-> 1,
                     playlists |-> file.playlists,
                     selectedPlaylistId |-> file.selectedPlaylistId]]

importJson(file) ==
    IF file.kind # "json" THEN Caught
    ELSE IF ~file.isObject \/ file.version # 1 \/ ~file.isArray THEN Caught
    ELSE LET fixed == [version |-> 1,
                       playlists |-> file.playlists,
                       selectedPlaylistId |->
                           Or(file.selectedPlaylistId,
                              IF Len(file.playlists) > 0
                                 /\ file.playlists[1].id # UNDEF
                              THEN file.playlists[1].id ELSE <<>>)]
             picked == pickDefaultPlaylistId(fixed)
         IN IF picked = Threw THEN Caught
            ELSE [ok |-> TRUE,
                  state |-> [fixed EXCEPT !.selectedPlaylistId = picked]]

\* keeps the current selection without looking it up
applyReplace_keepSelection(s, imported) ==
    [version |-> 1,
     playlists |-> IF Len(imported.playlists) > 0
                   THEN imported.playlists ELSE s.playlists,
     selectedPlaylistId |-> s.selectedPlaylistId]

\* onApply("replace", imported)
applyReplace(s, imported) ==
    LET fixed == [version |-> 1,
                  playlists |-> IF Len(imported.playlists) > 0
                                THEN imported.playlists ELSE s.playlists,
                  selectedPlaylistId |->
                      IF Len(imported.playlists) > 0
                      THEN Or(imported.playlists[1].id, s.selectedPlaylistId)
                      ELSE s.selectedPlaylistId]
    IN [fixed EXCEPT !.selectedPlaylistId = pickDefaultPlaylistId(fixed)]

\* the decimal digits of the disambiguator
digits(i) ==
    CASE i = 2 -> <<"2">> [] i = 3 -> <<"3">> [] i = 4 -> <<"4">>
      [] i = 5 -> <<"5">> [] i = 6 -> <<"6">> [] i = 7 -> <<"7">>
      [] i = 8 -> <<"8">> [] i = 9 -> <<"9">>

\* ` (${i})`
suffix(i) == <<" ", "(">> \o digits(i) \o <<")">>

\* the loop  let i = 2; while (existingNames.has(`${k} (${i})`)) i++;
RECURSIVE firstFree(_, _, _)
firstFree(existingNames, k, i) ==
    IF (k \o suffix(i)) \in existingNames
    THEN firstFree(existingNames, k, i + 1)
    ELSE i

\* the map over imported.playlists of onApply("merge", imported), from
\* position j on, with the names taken so far
RECURSIVE mergeNames(_, _, _)
mergeNames(playlists, j, existingNames) ==
    IF j > Len(playlists) THEN <<>>
    ELSE LET base == Or(playlists[j].name, ImportedLabel)
             k == toLowerCase(trim(base))
             name == IF k \in existingNames
                     THEN base \o suffix(firstFree(existingNames, k, 2))
                     ELSE base
         IN <<[playlists[j] EXCEPT !.name = name]>>
            \o mergeNames(playlists, j + 1,
                          existingNames \cup {toLowerCase(trim(name))})

\* puts the imported playlists first
applyMerge_importedFirst(s, imported) ==
    LET existingNames == {toLowerCase(trim(s.playlists[i].name)) :
                             i \in 1..Len(s.playlists)}
        merged == mergeNames(imported.playlists, 1, existingNames)
        next == [version |-> 1,
                 playlists |-> merged \o s.playlists,
                 selectedPlaylistId |-> s.selectedPlaylistId]
    IN [next EXCEPT !.selectedPlaylistId = pickDefaultPlaylistId(next)]

\* onApply("merge", imported)
applyMerge(s, imported) ==
    LET existingNames == {toLowerCase(trim(s.playlists[i].name)) :
                             i \in 1..Len(s.playlists)}
        merged == mergeNames(imported.playlists, 1, existingNames)
        next == [version |-> 1,
                 playlists |-> s.playlists \o merged,
                 selectedPlaylistId |-> s.selectedPlaylistId]
    IN [next EXCEPT !.selectedPlaylistId = pickDefaultPlaylistId(next)]

\* ApplyImportModal's effect: the decoded import, or null
NoImport == [ok |-> FALSE]

\* takes a decoded state without playlists as an import
importedOf_acceptEmpty(decoded) ==
    IF ~decoded.ok THEN NoImport
    ELSE [ok |-> TRUE, state |-> decoded.state]

importedOf(decoded) ==
    IF ~decoded.ok THEN NoImport
    ELSE IF Len(decoded.state.playlists) = 0 THEN NoImport
    ELSE [ok |-> TRUE, state |-> decoded.state]

AppMaxIds == 3        \* identifiers minted in one run of the application model
AppMaxPlaylists == 3  \* playlists the collection grows to by create and merge

NewListName == <<"N", "e", "w">>

\* a collection as a past session saved it or another installation exported
\* it: two playlists with the given ids, the first holding one item
savedPlaylists(a, b, c) ==
    << mkPlaylist(newId("pl", a), DefaultName, 1,
                  << mkItem(newId("v", b), <<"x">>, UNDEF, <<"T">>, <<"h">>,
                            UNDEF, <<>>, 1) >>),
       mkPlaylist(newId("pl", c), <<"M">>, 1, <<>>) >>

jsonDoc(isObject, version, isArray, playlists, selectedIsString, selected) ==
    [kind |-> "json", isObject |-> isObject, version |-> version,
     isArray |-> isArray, playlists |-> playlists,
     selectedIsString |-> selectedIsString, selectedPlaylistId |-> selected]

\* what localStorage may hold at start
StoredRecords ==
    LET pls == savedPlaylists(1, 2, 3)
    IN { [kind |-> "absent"],
         [kind |-> "text"],
         jsonDoc(FALSE, 0, FALSE, <<>>, FALSE, UNDEF),
         jsonDoc(TRUE, 2, TRUE, pls, TRUE, newId("pl", 1)),
         jsonDoc(TRUE, 1, FALSE, <<>>, TRUE, newId("pl", 1)),
         jsonDoc(TRUE, 1, TRUE, pls, FALSE, UNDEF),
         jsonDoc(TRUE, 1, TRUE, <<>>, TRUE, newId("pl", 1)),
         jsonDoc(TRUE, 1, TRUE, pls, TRUE, newId("pl", 9)),
         jsonDoc(TRUE, 1, TRUE, pls, TRUE, newId("pl", 3)) }

(***************************************************************************)
(* loadStoredState on its own: what localStorage holds, then the state      *)
(* loaded from it.  codec keeps the record read.                            *)
(***************************************************************************)
\* the playlists arrays of the records read: none, a saved collection, and
\* arrays with an entry that lacks its id, its name, or whose item lacks
\* its url
LoadPlaylistLists ==
    { <<>>,
      savedPlaylists(1, 2, 3),
      << mkPlaylist(UNDEF, DefaultName, 1, <<>>) >>,
      << mkPlaylist(newId("pl", 1), UNDEF, 1, <<>>) >>,
      << mkPlaylist(newId("pl", 1), DefaultName, 1,
                    << mkItem(newId("v", 2), UNDEF, UNDEF, UNDEF, UNDEF, UNDEF,
                              <<>>, 1) >>) >> }

LoadSelections == { <<>>, newId("pl", 1), newId("pl", 3), newId("pl", 9) }

LoadRecords ==
    { [kind |-> "absent"], [kind |-> "denied"], [kind |-> "text"],
      jsonDoc(FALSE, UNDEF_NUM, FALSE, <<>>, FALSE, UNDEF) }
    \cup
    { jsonDoc(TRUE, version, a.isArray, a.playlists, b.isString, b.selected) :
        version \in {UNDEF_NUM, 1, 2},
        a \in {[isArray |-> TRUE, playlists |-> pls] : pls \in LoadPlaylistLists}
              \cup {[isArray |-> FALSE, playlists |-> <<>>]},
        b \in {[isString |-> TRUE, selected |-> sel] : sel \in LoadSelections}
              \cup {[isString |-> FALSE, selected |-> UNDEF]} }

NoState == [version |-> 0]

LoadInit ==
    /\ state = NoState
    /\ codec \in {[pc |-> "stored", raw |-> raw] : raw \in LoadRecords}
    /\ nextId = 1
    /\ now = 1
    /\ last = NoLast
    /\ modal = NoModal

LoadRead ==
    /\ codec.pc = "stored"
    /\ state' = loadStoredState(codec.raw, nextId, now)
    /\ nextId' = IF loadSeeds(codec.raw) THEN nextId + 1 ELSE nextId
    /\ codec' = [codec EXCEPT !.pc = "loaded"]
    /\ UNCHANGED <<now, last, modal>>

LoadNext == LoadRead

SpecLoad == LoadInit /\ [][LoadNext]_vars

\* the files offered to importJson
ImportFiles ==
    LET pls == << mkPlaylist(newId("pl", 101), <<"M">>, 1, <<>>) >>
    IN { [kind |-> "text"],
         jsonDoc(FALSE, 0, FALSE, <<>>, FALSE, UNDEF),
         jsonDoc(TRUE, 2, TRUE, pls, TRUE, newId("pl", 101)),
         jsonDoc(TRUE, 1, FALSE, <<>>, TRUE, newId("pl", 101)),
         jsonDoc(TRUE, 1, TRUE, <<>>, TRUE, newId("pl", 101)),
         jsonDoc(TRUE, 1, TRUE, <<>>, FALSE, UNDEF),
         jsonDoc(TRUE, 1, TRUE, pls, FALSE, UNDEF),
         jsonDoc(TRUE, 1, TRUE, pls, TRUE, newId("pl", 9)),
         jsonDoc(TRUE, 1, TRUE, pls, TRUE, newId("pl", 101)) }

(***************************************************************************)
(* importJson on its own: a collection, the file chosen, then the state     *)
(* after reader.onload.  codec keeps the file and the state before.         *)
(***************************************************************************)
\* the contents of the files chosen: text that is no JSON and the documents
\* a record can hold
ImportDocuments == {raw \in LoadRecords : raw.kind \in {"text", "json"}}

ImportInit ==
    /\ state \in { defaultState(1, 1),
                   [version |-> 1, playlists |-> savedPlaylists(1, 2, 3),
                    selectedPlaylistId |-> newId("pl", 3)] }
    /\ codec \in {[pc |-> "chosen", file |-> file] : file \in ImportDocuments}
    /\ nextId = 4
    /\ now = 1
    /\ last = NoLast
    /\ modal = NoModal

ImportRead ==
    /\ codec.pc = "chosen"
    /\ state' = IF importJson(codec.file).ok THEN importJson(codec.file).state
                ELSE state
    /\ codec' = [pc |-> "imported", file |-> codec.file, pre |-> state]
    /\ UNCHANGED <<nextId, now, last, modal>>

ImportNext == ImportRead

SpecImport == ImportInit /\ [][ImportNext]_vars

token(prefix, data) == [prefix |-> prefix, data |-> data]

jsonData(v, isArray, p) ==
    [kind |-> "deflated",
     text |-> [kind |-> "json", value |-> [v |-> v, isArray |-> isArray, p |-> p]]]

\* a playlist of a token made elsewhere, under the given name
foreignPlaylist(name) == [n |-> name, c |-> 1, i |-> <<>>]

\* tokens nothing can be imported from: no or another version prefix, no
\* data, data that does not inflate, text that is no JSON, another version
\* discriminator, playlists that are no array, no playlist
UndecodableTokens ==
    { token(<<>>, jsonData(1, TRUE, <<foreignPlaylist(<<"M">>)>>)),
      token(<<"v", "2", ".">>, jsonData(1, TRUE, <<foreignPlaylist(<<"M">>)>>)),
      token(V1Prefix, [kind |-> "empty"]),
      token(V1Prefix, [kind |-> "garbage"]),
      token(V1Prefix, [kind |-> "deflated", text |-> [kind |-> "text"]]),
      token(V1Prefix, jsonData(2, TRUE, <<foreignPlaylist(<<"M">>)>>)),
      token(V1Prefix, jsonData(1, FALSE, <<>>)),
      token(V1Prefix, jsonData(1, TRUE, <<>>)) }

\* tokens made elsewhere: two playlists named "Fav ", and one without a name
ForeignTokens ==
    { token(V1Prefix, jsonData(1, TRUE, <<foreignPlaylist(DefaultName \o <<" ">>),
                                          foreignPlaylist(DefaultName \o <<" ">>)>>)),
      token(V1Prefix, jsonData(1, TRUE, <<foreignPlaylist(UNDEF)>>)) }

\* the options of the share dialog the application model copies a link with
AppShareOptions == { [scope |-> "selected", includeThumbnails |-> TRUE] }

(***************************************************************************)
(* onApply on its own: a collection and a token, the token decoded, then    *)
(* the decoded state applied in replace or in merge mode.  codec keeps the  *)
(* token, the decoded state and the state before.                           *)
(***************************************************************************)
ApplyStates ==
    { defaultState(1, 1),
      [version |-> 1, playlists |-> savedPlaylists(1, 2, 3),
       selectedPlaylistId |-> newId("pl", 1)],
      [version |-> 1, playlists |-> savedPlaylists(1, 2, 3),
       selectedPlaylistId |-> newId("pl", 3)],
      [version |-> 1,
       playlists |-> << mkPlaylist(newId("pl", 1), <<"m">>, 1, <<>>),
                        mkPlaylist(newId("pl", 2), <<"M", " ", "(", "2", ")">>,
                                   1, <<>>) >>,
       selectedPlaylistId |-> newId("pl", 2)] }

\* tokens that decode: those made elsewhere, one without playlists, one and
\* two playlists named "M", and the links of the collections above
ApplyTokens ==
    ForeignTokens
    \cup { token(V1Prefix, jsonData(1, TRUE, <<>>)),
           token(V1Prefix, jsonData(1, TRUE, <<foreignPlaylist(<<"M">>)>>)),
           token(V1Prefix, jsonData(1, TRUE, <<foreignPlaylist(<<"M">>),
                                               foreignPlaylist(<<"M">>)>>)) }
    \cup { encodeShareFromState(s, [scope |-> "all", includeThumbnails |-> FALSE]) :
              s \in ApplyStates }

ApplyInit ==
    /\ state \in ApplyStates
    /\ codec \in {[pc |-> "token", encoded |-> encoded] : encoded \in ApplyTokens}
    /\ nextId = 4
    /\ now = 2
    /\ last = NoLast
    /\ modal = NoModal

ApplyDecode ==
    /\ codec.pc = "token"
    /\ LET r == decodeShareToState(codec.encoded, nextId, now)
       IN /\ r.ok
          /\ codec' = [pc |-> "decoded", imported |-> r.state]
          /\ nextId' = nextId + r.minted
    /\ UNCHANGED <<state, now, last, modal>>

ApplyReplace ==
    /\ codec.pc = "decoded"
    /\ state' = applyReplace(state, codec.imported)
    /\ codec' = [pc |-> "replaced", imported |-> codec.imported, pre |-> state]
    /\ UNCHANGED <<nextId, now, last, modal>>

ApplyMerge ==
    /\ codec.pc = "decoded"
    /\ state' = applyMerge(state, codec.imported)
    /\ codec' = [pc |-> "merged", imported |-> codec.imported, pre |-> state]
    /\ UNCHANGED <<nextId, now, last, modal>>

ApplyNext ==
    \/ ApplyDecode
    \/ ApplyReplace
    \/ ApplyMerge

SpecApply == ApplyInit /\ [][ApplyNext]_vars

\* what normalizeYouTubeUrl returns for the urls typed into the add dialog
AppItemInputs ==
    { [url |-> <<"x">>, videoId |-> UNDEF],
      [url |-> <<"y">>, videoId |-> <<"a">>] }

(***************************************************************************)
(* The add-video request on its own: onAddVideo normalizes the url, awaits  *)
(* the metadata lookup and then adds the item.  codec keeps the request     *)
(* while the lookup is pending; the add dialog is busy meanwhile.           *)
(***************************************************************************)
AddMaxIds == 4   \* identifiers minted in one run of the add-video model

\* how fetchYouTubeOEmbed ends: the service answers with title and thumbnail,
\* it answers with a status that is not ok, or fetch or resp.json() rejects
LookupOutcomes == {"answered", "notOk", "rejected"}

\* what fetchYouTubeOEmbed returns
fetchYouTubeOEmbed(outcome) ==
    IF outcome = "answered" THEN [title |-> <<"T">>, thumbnailUrl |-> <<"h">>]
    ELSE [title |-> UNDEF, thumbnailUrl |-> UNDEF]

AddCreatePlaylist ==
    /\ codec = NoCodec
    /\ last = NoLast
    /\ nextId <= AddMaxIds
    /\ LET pl == mkPlaylist(newId("pl", nextId), NewListName, now, <<>>)
       IN state' = [upsertPlaylist(state, pl).state EXCEPT
                       !.selectedPlaylistId = pl.id]
    /\ nextId' = nextId + 1
    /\ UNCHANGED <<now, last, modal, codec>>

\* the add button: the request is made and the lookup begins
AddSubmit ==
    \E playlistId \in PlaylistIds(state), normalized \in AppItemInputs :
        /\ codec = NoCodec
        /\ last = NoLast
        /\ codec' = [pc |-> "lookup", playlistId |-> playlistId,
                     normalized |-> normalized]
        /\ UNCHANGED <<state, nextId, now, last, modal>>

\* the rest of onAddVideo once the lookup ended
AddSettle ==
    \E outcome \in LookupOutcomes :
        /\ codec.pc = "lookup"
        /\ last = NoLast
        /\ outcome # "rejected" => nextId <= AddMaxIds
        /\ LET meta == fetchYouTubeOEmbed(outcome)
               item == mkItem(newId("v", nextId), codec.normalized.url,
                              codec.normalized.videoId, meta.title,
                              meta.thumbnailUrl, UNDEF, <<>>, now)
           IN state' = IF outcome = "rejected" THEN state
                       ELSE addVideoToPlaylist(state, codec.playlistId, item).state
        /\ nextId' = IF outcome = "rejected" THEN nextId ELSE nextId + 1
        /\ codec' = NoCodec
        /\ last' \in {NoLast,
                      [op |-> "addVideo", pre |-> state, outcome |-> outcome,
                       playlistId |-> codec.playlistId]}
        /\ UNCHANGED <<now, modal>>

AddNext ==
    \/ AddCreatePlaylist
    \/ AddSubmit
    \/ AddSettle

SpecAdd == StoreInit /\ [][AddNext]_vars

\* names typed into the playlist dialog
AppNameInputs == { <<>>, <<" ", "m">> }

AppInit ==
    /\ \E raw \in StoredRecords :
          /\ LET s == loadStoredState(raw, 1, 1)
             IN state = [s EXCEPT !.selectedPlaylistId = pickDefaultPlaylistId(s)]
          /\ nextId = IF loadSeeds(raw) THEN 2 ELSE 4
    /\ now = 1
    /\ last = NoLast
    /\ modal = NoModal
    /\ codec = NoCodec

\* a user action outside the import modal
AppSet(s) ==
    /\ modal = NoModal
    /\ last = NoLast
    /\ state' = s
    /\ UNCHANGED <<modal, now, codec>>

selectPlaylist ==
    \E playlistId \in PlaylistIds(state) :
        /\ AppSet([state EXCEPT !.selectedPlaylistId = playlistId])
        /\ UNCHANGED <<nextId, last>>

onCreatePlaylist ==
    \E name \in AppNameInputs :
        /\ nextId <= AppMaxIds
        /\ Len(state.playlists) < AppMaxPlaylists
        /\ LET pl == mkPlaylist(newId("pl", nextId), Or(trim(name), NewListName),
                                now, <<>>)
           IN AppSet([upsertPlaylist(state, pl).state EXCEPT
                         !.selectedPlaylistId = pl.id])
        /\ nextId' = nextId + 1
        /\ UNCHANGED last

onRenamePlaylist ==
    \E playlistId \in PlaylistIds(state), name \in AppNameInputs :
        /\ LET pl == playlistOf(state, playlistId)
           IN AppSet(upsertPlaylist(state,
                         [pl EXCEPT !.name = Or(trim(name), pl.name)]).state)
        /\ UNCHANGED <<nextId, last>>

onDeletePlaylist ==
    \E playlistId \in PlaylistIds(state) :
        /\ deleteReseeds(state, playlistId) => nextId <= AppMaxIds
        /\ AppSet(deletePlaylist(state, playlistId, nextId, now).state)
        /\ nextId' = IF deleteReseeds(state, playlistId) THEN nextId + 1 ELSE nextId
        /\ last' \in {NoLast,
                      [op |-> "delete", pre |-> state, playlistId |-> playlistId]}

\* the lookup answered: title and thumbnail are known
onAddVideo ==
    \E playlistId \in PlaylistIds(state), normalized \in AppItemInputs :
        /\ nextId <= AppMaxIds
        /\ LET item == mkItem(newId("v", nextId), normalized.url,
                              normalized.videoId, <<"T">>, <<"h">>, UNDEF,
                              <<>>, now)
           IN AppSet(addVideoToPlaylist(state, playlistId, item).state)
        /\ nextId' = nextId + 1
        /\ UNCHANGED last

\* the cards shown are the items of the selected playlist
onRemove ==
    \E v \in ItemIds([state EXCEPT !.playlists = <<playlistOf(state, state.selectedPlaylistId)>>]) :
        /\ AppSet(removeVideoFromPlaylist(state, state.selectedPlaylistId, v).state)
        /\ UNCHANGED <<nextId, last>>

onEditTags ==
    \E v \in ItemIds([state EXCEPT !.playlists = <<playlistOf(state, state.selectedPlaylistId)>>]) :
        /\ AppSet(updateVideoInPlaylist(state, state.selectedPlaylistId, v,
                                        [tags |-> << <<"t">> >>]).state)
        /\ UNCHANGED <<nextId, last>>

onMove ==
    \E v \in ItemIds([state EXCEPT !.playlists = <<playlistOf(state, state.selectedPlaylistId)>>]),
       toPlaylistId \in PlaylistIds(state) \ {state.selectedPlaylistId} :
        /\ AppSet(moveVideo(state, state.selectedPlaylistId, toPlaylistId, v).state)
        /\ UNCHANGED <<nextId, last>>

onImportJson ==
    \E file \in ImportFiles :
        /\ AppSet(IF importJson(file).ok THEN importJson(file).state ELSE state)
        /\ UNCHANGED <<nextId, last>>

\* setModal({ type: "applyImport", encoded }) and the modal's effect
openImport ==
    \E encoded \in UndecodableTokens \cup ForeignTokens
                   \cup {encodeShareFromState(state, opts) : opts \in AppShareOptions} :
        LET decoded == decodeShareToState(encoded, nextId, now)
        IN /\ modal = NoModal
           /\ last = NoLast
           /\ nextId + decoded.minted <= AppMaxIds + 1
           /\ modal' = [type |-> "applyImport", encoded |-> encoded,
                        imported |-> importedOf(decoded)]
           /\ nextId' = nextId + decoded.minted
           /\ UNCHANGED <<state, now, last, codec>>

\* the merge button; the modal stays open
onApplyMerge ==
    /\ modal.type = "applyImport"
    /\ modal.imported.ok
    /\ last = NoLast
    /\ Len(state.playlists) + Len(modal.imported.state.playlists) <= AppMaxPlaylists
    /\ state' = applyMerge(state, modal.imported.state)
    /\ last' \in {NoLast,
                  [op |-> "merge", pre |-> state, imported |-> modal.imported.state]}
    /\ UNCHANGED <<modal, nextId, now, codec>>

\* the replace button; the modal stays open
onApplyReplace ==
    /\ modal.type = "applyImport"
    /\ modal.imported.ok
    /\ last = NoLast
    /\ state' = applyReplace(state, modal.imported.state)
    /\ UNCHANGED <<modal, nextId, now, last, codec>>

onClose ==
    /\ modal.type = "applyImport"
    /\ last = NoLast
    /\ modal' = NoModal
    /\ UNCHANGED <<state, nextId, now, last, codec>>

Next ==
    \/ selectPlaylist
    \/ onCreatePlaylist
    \/ onRenamePlaylist
    \/ onDeletePlaylist
    \/ onAddVideo
    \/ onRemove
    \/ onEditTags
    \/ onMove
    \/ onImportJson
    \/ openImport
    \/ onApplyMerge
    \/ onApplyReplace
    \/ onClose

Spec == AppInit /\ [][Next]_vars

(***************************************************************************)
(* Vocabulary of the claims.                                                *)
(***************************************************************************)
\* the dedup key of an item: its videoId if it has one, else its url
dedupKey(v) == IF v.videoId # UNDEF THEN v.videoId ELSE v.url

HoldsItem(pl, videoItemId) ==
    \E k \in 1..Len(pl.items) : pl.items[k].id = videoItemId

itemOf(pl, videoItemId) ==
    pl.items[CHOOSE k \in 1..Len(pl.items) : pl.items[k].id = videoItemId]

HoldsKey(pl, key) ==
    \E k \in 1..Len(pl.items) : dedupKey(pl.items[k]) = key

\* C3: no playlist contains two items with the same dedup key, in every state
\* reached from the seeded default state through the store's operations.
C3_NoDuplicateDedupKey ==
    \A i \in 1..Len(state.playlists) :
        \A k1, k2 \in 1..Len(state.playlists[i].items) :
            k1 # k2 =>
                dedupKey(state.playlists[i].items[k1])
                    # dedupKey(state.playlists[i].items[k2])

\* the case of C4: a move between two distinct playlists of the state, of an
\* item the source holds, onto a destination holding its dedup key
C4_Case ==
    /\ last.op = "moveVideo"
    /\ last.args.fromPlaylistId # last.args.toPlaylistId
    /\ last.args.fromPlaylistId \in PlaylistIds(last.pre)
    /\ last.args.toPlaylistId \in PlaylistIds(last.pre)
    /\ HoldsItem(playlistOf(last.pre, last.args.fromPlaylistId), last.args.videoItemId)
    /\ HoldsKey(playlistOf(last.pre, last.args.toPlaylistId),
                dedupKey(itemOf(playlistOf(last.pre, last.args.fromPlaylistId),
                                last.args.videoItemId)))

\* C4: moving an item onto a playlist that already holds its dedup key removes
\* it from the source (one item fewer) and leaves the destination's items
\* exactly as they were.
C4_MoveOntoDuplicateDrops ==
    C4_Case =>
        LET A0 == playlistOf(last.pre, last.args.fromPlaylistId)
            B0 == playlistOf(last.pre, last.args.toPlaylistId)
            A1 == playlistOf(state, last.args.fromPlaylistId)
            B1 == playlistOf(state, last.args.toPlaylistId)
        IN /\ Len(A1.items) = Len(A0.items) - 1
           /\ ~HoldsItem(A1, last.args.videoItemId)
           /\ B1.items = B0.items

\* the case of C9: deleting the only playlist of a state
C9_Case ==
    /\ last.op = "deletePlaylist"
    /\ Len(last.pre.playlists) = 1
    /\ last.pre.playlists[1].id = last.args.playlistId

\* C9: deleting the only playlist yields exactly one playlist, freshly seeded
\* (an id the given state did not hold, the default name, no items), which is
\* the selected one.
C9_DeleteLastReseeds ==
    C9_Case =>
        /\ Len(state.playlists) = 1
        /\ state.playlists[1].id \notin PlaylistIds(last.pre)
        /\ state.playlists[1].id # last.args.playlistId
        /\ state.playlists[1].name = DefaultName
        /\ state.playlists[1].items = <<>>
        /\ state.selectedPlaylistId = state.playlists[1].id

\* a reseed that replaced a playlist which held an item
C9_Witness ==
    /\ C9_Case
    /\ last.pre.playlists[1].items # <<>>
    /\ Len(state.playlists) = 1

\* what C10 says of the result of addVideoToPlaylist: the target's items are
\* the item followed by the previous items, every other playlist is the same
\* object at the same position, the selection is the same
C10_Prepended ==
    LET idx == findIndex(last.pre.playlists, last.args.playlistId)
    IN /\ Len(state.playlists) = Len(last.pre.playlists)
       /\ state.playlists[idx].items
              = <<last.args.item>> \o last.pre.playlists[idx].items
       /\ \A i \in 1..Len(state.playlists) :
              i # idx => /\ last.origin[i] = i
                         /\ state.playlists[i] = last.pre.playlists[i]
       /\ state.selectedPlaylistId = last.pre.selectedPlaylistId

C10_Case ==
    /\ last.op = "addVideoToPlaylist"
    /\ last.args.playlistId \in PlaylistIds(last.pre)
    /\ ~HoldsKey(playlistOf(last.pre, last.args.playlistId),
                 IF last.args.item.videoId # UNDEF
                 THEN last.args.item.videoId
                 ELSE trim(last.args.item.url))

C5_Case ==
    /\ codec.pc = "decoded"
    /\ scopeOf(codec.opts) = "all"

\* the decoded collection has the playlists of the encoded one in their
\* order, each with its items in their order, every decoded item has the
\* url, tags and addedAt of the item it was encoded from, and OptionalOk
\* relates its videoId and title to that item's
C5_RoundTrip(OptionalOk(_, _)) ==
    /\ codec.decoded.ok
    /\ LET d == codec.decoded.state.playlists
           o == state.playlists
       IN /\ Len(d) = Len(o)
          /\ \A j \in 1..Len(o) :
                /\ Len(d[j].items) = Len(o[j].items)
                /\ d[j].id \notin PlaylistIds(state)
                /\ \A k \in 1..Len(o[j].items) :
                      /\ d[j].items[k].url = o[j].items[k].url
                      /\ d[j].items[k].tags = o[j].items[k].tags
                      /\ d[j].items[k].addedAt = o[j].items[k].addedAt
                      /\ OptionalOk(d[j].items[k], o[j].items[k])
                      /\ d[j].items[k].id \notin ItemIds(state)

\* C5 as stated: decoding the encoding of a collection gives the same
\* playlists and items in the same order, every item equal to its original on
\* url, videoId, title, tags and addedAt.
C5_RoundTripStated ==
    C5_Case =>
        LET Same(dec, orig) ==
                dec.videoId = orig.videoId /\ dec.title = orig.title
        IN C5_RoundTrip(Same)

\* C5, amended: as stated, except that the decoded title is the original's
\* title or, when that is absent or empty, the original's sourceTitle, and
\* that an empty videoId, title or sourceTitle decodes as absent.
C5_RoundTripTitleOrSource ==
    C5_Case =>
        LET absentIfEmpty(x) == IF x = <<>> THEN UNDEF ELSE x
            Displayed(dec, orig) ==
                /\ dec.videoId = absentIfEmpty(orig.videoId)
                /\ dec.title = (IF orig.title \notin {UNDEF, <<>>}
                                THEN orig.title
                                ELSE absentIfEmpty(orig.sourceTitle))
        IN C5_RoundTrip(Displayed)

\* two playlists went through the codec, the second with an item that has
\* only a sourceTitle and an item that has a title
C5_Witness ==
    /\ C5_Case
    /\ Len(state.playlists) = 2
    /\ Len(state.playlists[2].items) = 2
    /\ state.playlists[2].items[1].title = UNDEF
    /\ state.playlists[2].items[1].sourceTitle # UNDEF
    /\ state.playlists[2].items[2].title # UNDEF
    /\ codec.decoded.ok
    /\ Len(codec.decoded.state.playlists[2].items) = 2

\* C1: in every state reachable from loadStoredState through the
\* application's actions, the playlists list is non-empty.
C1_PlaylistsNonEmpty == Len(state.playlists) > 0

\* the only playlist was deleted and the collection holds one playlist again
C1_Witness ==
    /\ last.op = "delete"
    /\ Len(last.pre.playlists) = 1
    /\ last.pre.playlists[1].id = last.playlistId
    /\ Len(state.playlists) = 1

\* C2: in every state reachable from loadStoredState through the
\* application's actions, selectedPlaylistId is the id of some playlist
\* currently in playlists.
C2_SelectionValid ==
    \E i \in 1..Len(state.playlists) :
        state.playlists[i].id = state.selectedPlaylistId

\* the selected playlist was deleted while others remain, and the selection
\* is the first remaining playlist
C2_Witness ==
    /\ last.op = "delete"
    /\ last.playlistId = last.pre.selectedPlaylistId
    /\ Len(last.pre.playlists) > 1
    /\ Len(state.playlists) = Len(last.pre.playlists) - 1
    /\ state.selectedPlaylistId = state.playlists[1].id

\* the items of the collection by position: <<playlist index, item index>>
itemPositions(s) ==
    {<<i, j>> : i \in 1..Len(s.playlists), j \in 1..AppMaxIds} \cap
    UNION {{<<i, j>> : j \in 1..Len(s.playlists[i].items)} : i \in 1..Len(s.playlists)}

idsPairwiseDistinct(s) ==
    /\ \A i, j \in 1..Len(s.playlists) :
          i # j => s.playlists[i].id # s.playlists[j].id
    /\ \A a, b \in itemPositions(s) :
          a # b => s.playlists[a[1]].items[a[2]].id # s.playlists[b[1]].items[b[2]].id

\* C6: the ids decodeShareToState returns are freshly minted, so a share
\* import in merge mode applied to a collection whose playlist ids and item
\* ids are pairwise distinct leaves them pairwise distinct.
C6_MergeKeepsIdsDistinct ==
    (last.op = "merge" /\ idsPairwiseDistinct(last.pre))
        => idsPairwiseDistinct(state)

nameKey(name) == toLowerCase(trim(name))

\* the smallest i >= 2 for which base with the suffix " (i)" is unused
smallestUnused(base, taken) ==
    CHOOSE i \in 2..(Cardinality(taken) + 2) :
        /\ nameKey(base \o suffix(i)) \notin taken
        /\ \A h \in 2..(i - 1) : nameKey(base \o suffix(h)) \in taken

\* the final names the merge rule gives the imported names from position j
\* on, with the running name set taken
RECURSIVE statedNames(_, _, _)
statedNames(names, j, taken) ==
    IF j > Len(names) THEN <<>>
    ELSE LET name == IF nameKey(names[j]) \in taken
                     THEN names[j] \o suffix(smallestUnused(names[j], taken))
                     ELSE names[j]
         IN <<name>> \o statedNames(names, j + 1, taken \cup {nameKey(name)})

\* C7: after a merge, an imported playlist whose trimmed, lower-cased name is
\* not in the running name set keeps its name, one that collides gets the
\* suffix " (i)" with the smallest i >= 2 making the candidate unused, and
\* every imported playlist's final name, trimmed and lower-cased, differs
\* from every current playlist's name and from every other imported
\* playlist's final name.
C7_MergeNames ==
    last.op = "merge" =>
        LET n == Len(last.pre.playlists)
            m == Len(last.imported.playlists)
            current == {nameKey(last.pre.playlists[i].name) : i \in 1..n}
            final == [j \in 1..m |-> state.playlists[n + j].name]
        IN /\ Len(state.playlists) = n + m
           /\ final = statedNames([j \in 1..m |-> last.imported.playlists[j].name],
                                  1, current)
           /\ \A j \in 1..m : nameKey(final[j]) \notin current
           /\ \A j, h \in 1..m : j # h => nameKey(final[j]) # nameKey(final[h])

\* C8: opening the import flow with a token that cannot be decoded leaves
\* the collection state as it was, and while the flow is open on such a
\* token nothing is imported: neither merge nor replace changes the state.
C8_UndecodableLeavesState ==
    [][(modal'.type = "applyImport" /\ modal'.encoded \in UndecodableTokens)
          => (state' = state /\ ~modal'.imported.ok)]_vars

\* the import flow is open on a token of a version other than v1
C8_Witness ==
    /\ modal.type = "applyImport"
    /\ modal.encoded \in UndecodableTokens
    /\ modal.encoded.prefix # V1Prefix
    /\ ~modal.imported.ok

\* C11: addVideoToPlaylist returns the state it was given when the playlist
\* id is not a playlist of the state or when the playlist already holds an
\* item whose dedup key equals that of the item to add.
C11_AddNoOp ==
    (/\ last.op = "addVideoToPlaylist"
     /\ \/ last.args.playlistId \notin PlaylistIds(last.pre)
        \/ HoldsKey(playlistOf(last.pre, last.args.playlistId),
                    dedupKey(last.args.item)))
        => (last.same /\ state = last.pre)

\* the value of the state an observed call on the heap was given
givenH == stateAtH(last.before, last.given)

\* what an observed call on the heap returned, computed on values
storeResultH ==
    CASE last.op = "upsertPlaylist" ->
            upsertPlaylist(givenH, playlistAtH(last.before, last.args.playlist))
      [] last.op = "deletePlaylist" ->
            deletePlaylist(givenH, last.args.playlistId, nextId - 1, now)
      [] last.op = "addVideoToPlaylist" ->
            addVideoToPlaylist(givenH, last.args.playlistId,
                               last.before[last.args.item].value)
      [] last.op = "removeVideoFromPlaylist" ->
            removeVideoFromPlaylist(givenH, last.args.playlistId,
                                    last.args.videoItemId)
      [] last.op = "updateVideoInPlaylist" ->
            updateVideoInPlaylist(givenH, last.args.playlistId,
                                  last.args.videoItemId, last.args.patch)
      [] last.op = "moveVideo" ->
            moveVideo(givenH, last.args.fromPlaylistId, last.args.toPlaylistId,
                      last.args.videoItemId)

\* the operations on the heap return the value, and the reference tags, that
\* the operations on values compute
HeapAgreesWithStore ==
    last.op # "none" =>
        LET r == storeResultH
            given == playlistsAt(last.before, last.given)
            got == playlistsAt(last.after, last.ret)
        IN /\ stateAtH(last.after, last.ret) = r.state
           /\ (last.ret = last.given) = r.same
           /\ \A i \in 1..Len(got) :
                 IF r.origin[i] = 0
                 THEN \A j \in 1..Len(given) : got[i] # given[j]
                 ELSE got[i] = given[r.origin[i]]

\* C12: no store operation modifies an object it was given: every object on
\* the heap at the call (the state, its playlists array, the playlists,
\* their item arrays, the items, the arguments) is after the call what it was.
C12_GivenObjectsUnchanged ==
    last.op # "none" =>
        /\ Len(last.after) >= Len(last.before)
        /\ \A a \in 1..Len(last.before) : last.after[a] = last.before[a]

\* an update that changed an item of a playlist holding two items
C12_Witness ==
    /\ last.op = "updateVideoInPlaylist"
    /\ last.ret # last.given
    /\ stateAtH(last.after, last.ret) # stateAtH(last.before, last.given)
    /\ \E i \in 1..Len(state.playlists) : Len(state.playlists[i].items) >= 2

\* C13: a store operation that applies no change to the content of the
\* collection returns the state reference it was given.
C13_NoChangeSameReference ==
    (last.op # "none" /\ state = last.pre) => last.same

\* C14: no public operation of the store or the codec raises an exception to
\* its caller.  Of the operations modelled, decodeShareToState is the one
\* with a throwing outcome: the call the import flow makes when it opens
\* returns a value.
C14_NoOperationThrows ==
    [][(modal.type = "none" /\ modal'.type = "applyImport")
          => decodeShareToState(modal'.encoded, nextId, now).ok]_vars

\* the state is a freshly seeded default state: exactly one playlist, empty,
\* under the default name and the id just minted, and selected
seededDefault(s, n) ==
    /\ Len(s.playlists) = 1
    /\ s.playlists[1].id = newId("pl", n)
    /\ s.playlists[1].name = DefaultName
    /\ s.playlists[1].items = <<>>
    /\ s.selectedPlaylistId = s.playlists[1].id

\* the records C15 lists: none, unparsable, version not 1, playlists not an
\* array or empty, selectedPlaylistId not a string
refusedAtTopLevel(raw) ==
    \/ raw.kind # "json"
    \/ ~raw.isObject
    \/ raw.version # 1
    \/ ~raw.isArray
    \/ raw.playlists = <<>>
    \/ ~raw.selectedIsString

\* C15: loadStoredState returns a freshly seeded default state for a record
\* that is absent, unparsable, of a version other than 1, whose playlists is
\* no array or empty or whose selectedPlaylistId is no string; for a record
\* it accepts it returns the record's playlists, selecting the stored
\* selection if that is one of them and the first playlist otherwise.
C15_LoadNeverFails ==
    codec.pc = "loaded" =>
        IF refusedAtTopLevel(codec.raw)
        THEN seededDefault(state, nextId - 1)
        ELSE /\ state.playlists = codec.raw.playlists
             /\ state.selectedPlaylistId =
                    IF codec.raw.selectedPlaylistId \in PlaylistIds(state)
                    THEN codec.raw.selectedPlaylistId
                    ELSE state.playlists[1].id

\* an accepted record whose selection matched no playlist was loaded
C15_Witness ==
    /\ codec.pc = "loaded"
    /\ ~refusedAtTopLevel(codec.raw)
    /\ Len(codec.raw.playlists) = 2
    /\ codec.raw.selectedPlaylistId \notin PlaylistIds(state)
    /\ state.selectedPlaylistId = state.playlists[1].id

\* the documented shape below the top level: every playlist has id, name,
\* createdAt and an items array, every item id, url, a tags array and addedAt
shapedBelowTopLevel(playlists) ==
    \A i \in 1..Len(playlists) :
        /\ playlists[i].id # UNDEF
        /\ playlists[i].name # UNDEF
        /\ playlists[i].createdAt # UNDEF_NUM
        /\ \A k \in 1..Len(playlists[i].items) :
              /\ playlists[i].items[k].id # UNDEF
              /\ playlists[i].items[k].url # UNDEF
              /\ playlists[i].items[k].tags # UNDEF_LIST
              /\ playlists[i].items[k].addedAt # UNDEF_NUM

\* C16: a persisted record that fails the documented shape in any part, below
\* the top level included, is replaced by the seeded default state on load.
C16_MalformedBelowTopLevelRejected ==
    (/\ codec.pc = "loaded"
     /\ \/ refusedAtTopLevel(codec.raw)
        \/ ~shapedBelowTopLevel(codec.raw.playlists))
        => seededDefault(state, nextId - 1)

\* C17: when the metadata lookup of an add-video request fails (the request
\* rejects, or the service answers with an unsuccessful status), the
\* collection state after the request equals the state before it.
C17_FailedLookupAddsNothing ==
    (last.op = "addVideo" /\ last.outcome # "answered") => state = last.pre

\* C18: when the file chosen is not valid JSON matching the schema of the
\* persisted record (wrong version, playlists no array or empty, or entries
\* that lack required fields), importJson leaves the state unchanged.
C18_InvalidFileLeavesState ==
    (/\ codec.pc = "imported"
     /\ \/ codec.file.kind # "json"
        \/ ~codec.file.isObject
        \/ codec.file.version # 1
        \/ ~codec.file.isArray
        \/ codec.file.playlists = <<>>
        \/ ~shapedBelowTopLevel(codec.file.playlists))
        => state = codec.pre

\* C19: applying a decoded import in replace mode yields exactly the imported
\* playlists, none of the current ones remaining, when the import has a
\* playlist, and exactly the current playlists when it has none; in both
\* cases selectedPlaylistId is the id of a playlist of the result.
C19_ReplaceTakesImported ==
    codec.pc = "replaced" =>
        /\ IF Len(codec.imported.playlists) > 0
           THEN /\ state.playlists = codec.imported.playlists
                /\ PlaylistIds(state) \cap PlaylistIds(codec.pre) = {}
           ELSE state.playlists = codec.pre.playlists
        /\ state.selectedPlaylistId \in PlaylistIds(state)

\* two imported playlists replaced a collection of two others
C19_Witness ==
    /\ codec.pc = "replaced"
    /\ Len(codec.imported.playlists) = 2
    /\ Len(codec.pre.playlists) = 2
    /\ state.playlists # codec.pre.playlists
    /\ state.selectedPlaylistId = state.playlists[1].id

\* an import without playlists was applied in replace mode
C19_WitnessEmptyImport ==
    /\ codec.pc = "replaced"
    /\ Len(codec.imported.playlists) = 0
    /\ Len(state.playlists) = 2

\* C20: applying a decoded import in merge mode yields the current playlists,
\* unchanged and in their order, followed by every imported playlist in
\* import order with its id, createdAt and items unchanged and its name
\* kept or extended; the selected playlist stays the one selected before.
C20_MergeAppendsImported ==
    codec.pc = "merged" =>
        LET n == Len(codec.pre.playlists)
            m == Len(codec.imported.playlists)
        IN /\ Len(state.playlists) = n + m
           /\ SubSeq(state.playlists, 1, n) = codec.pre.playlists
           /\ \A j \in 1..m :
                 LET got == state.playlists[n + j]
                     imp == codec.imported.playlists[j]
                 IN /\ got.id = imp.id
                    /\ got.createdAt = imp.createdAt
                    /\ got.items = imp.items
                    /\ Len(got.name) >= Len(imp.name)
                    /\ SubSeq(got.name, 1, Len(imp.name)) = imp.name
           /\ state.selectedPlaylistId = codec.pre.selectedPlaylistId

\* two playlists, one of them renamed and one holding an item, were appended
\* to a collection of two
C20_Witness ==
    /\ codec.pc = "merged"
    /\ Len(codec.pre.playlists) = 2
    /\ Len(codec.imported.playlists) = 2
    /\ Len(state.playlists) = 4
    /\ state.playlists[3].items # <<>>
    /\ state.playlists[4].name # codec.imported.playlists[2].name

\* a well-formed v1 token whose playlist list is empty
emptyListToken(encoded) ==
    /\ encoded.prefix = V1Prefix
    /\ encoded.data.kind = "deflated"
    /\ encoded.data.text.kind = "json"
    /\ encoded.data.text.value.v = 1
    /\ encoded.data.text.value.isArray
    /\ encoded.data.text.value.p = <<>>

\* C21 as stated: decodeShareToState does not return a state for a
\* well-formed v1 token whose playlist list is empty.
C21_EmptyListThrowsStated ==
    [][(modal.type = "none" /\ modal'.type = "applyImport"
        /\ emptyListToken(modal'.encoded))
          => ~decodeShareToState(modal'.encoded, nextId, now).ok]_vars

\* C21, amended: for a well-formed v1 token whose playlist list is empty
\* decodeShareToState returns a state without playlists, which the import
\* flow refuses: nothing is imported and the collection stays as it was.
C21_EmptyListRefusedByImportFlow ==
    [][(modal'.type = "applyImport" /\ emptyListToken(modal'.encoded))
          => /\ state' = state
             /\ ~modal'.imported.ok
             /\ modal.type = "none" =>
                   LET decoded == decodeShareToState(modal'.encoded, nextId, now)
                   IN decoded.ok /\ decoded.state.playlists = <<>>]_vars

\* the import flow is open on a token whose playlist list is empty
C21_Witness ==
    /\ modal.type = "applyImport"
    /\ emptyListToken(modal.encoded)
    /\ ~modal.imported.ok

(***************************************************************************)
(* decodeShareToState on tokens made elsewhere: every optional field of a   *)
(* playlist and of an item missing, present with a falsy value, or present. *)
(* codec keeps the token and what decoding it gave.                         *)
(***************************************************************************)
\* createdAt and addedAt of a token: missing, zero, a time before now
TokenTimes == {UNDEF_NUM, 0, 1}

\* names of a token's playlist: missing, empty, given
TokenNames == {UNDEF, <<>>, <<"M">>}

tokenItem(a) ==
    [u |-> <<"x">>, y |-> UNDEF, t |-> UNDEF, g |-> UNDEF_LIST, a |-> a, h |-> UNDEF]

TokenPlaylists ==
    { [n |-> n, c |-> c, i |-> i] :
        n \in TokenNames, c \in TokenTimes,
        i \in {<<>>} \cup {<<tokenItem(a)>> : a \in TokenTimes} }

DecodeTokens ==
    { token(V1Prefix, jsonData(1, TRUE, p)) :
        p \in SeqsUpTo(TokenPlaylists, MaxSharePlaylists) \ {<<>>} }

DecodeInit ==
    /\ state = defaultState(1, 1)
    /\ codec \in {[pc |-> "token", encoded |-> encoded] : encoded \in DecodeTokens}
    /\ nextId = 2
    /\ now = 3
    /\ last = NoLast
    /\ modal = NoModal

DecodeToken ==
    /\ codec.pc = "token"
    /\ LET r == decodeShareToState(codec.encoded, nextId, now)
       IN /\ codec' = [pc |-> "decoded", encoded |-> codec.encoded, decoded |-> r]
          /\ nextId' = nextId + r.minted
    /\ UNCHANGED <<state, now, last, modal>>

DecodeNext == DecodeToken

SpecDecode == DecodeInit /\ [][DecodeNext]_vars

\* the playlists of the token that was decoded
tokenPlaylists == codec.encoded.data.text.value.p

\* field by field, what C22 says of the decoded playlists when a time of the
\* token counts as given exactly when given(time) holds
decodedDefaults(given(_)) ==
    /\ codec.decoded.ok
    /\ Len(codec.decoded.state.playlists) = Len(tokenPlaylists)
    /\ \A j \in 1..Len(tokenPlaylists) :
          LET pl == tokenPlaylists[j]
              out == codec.decoded.state.playlists[j]
          IN /\ out.createdAt = IF given(pl.c) THEN pl.c ELSE now
             /\ out.name = IF pl.n \in {UNDEF, <<>>} THEN ImportedLabel ELSE pl.n
             /\ Len(out.items) = Len(pl.i)
             /\ \A k \in 1..Len(pl.i) :
                   out.items[k].addedAt = IF given(pl.i[k].a) THEN pl.i[k].a ELSE now

\* C22 as stated: createdAt and addedAt are the token's whenever the field
\* is there and the decode-time clock only when it is missing; a missing or
\* empty name becomes the imported label and any other name is kept
C22_DefaultsOnlyWhenMissingStated ==
    codec.pc = "decoded" =>
        LET present(time) == time # UNDEF_NUM
        IN decodedDefaults(present)

\* C22, amended: createdAt and addedAt are the token's when the field is
\* there and not zero, and the decode-time clock when it is missing or zero;
\* a missing or empty name becomes the imported label, any other name is kept
C22_DefaultsWhenMissingOrZero ==
    codec.pc = "decoded" =>
        LET truthy(time) == time # UNDEF_NUM /\ time # 0
        IN decodedDefaults(truthy)

C22_Witness ==
    /\ codec.pc = "decoded"
    /\ \E j \in 1..Len(tokenPlaylists) :
          /\ tokenPlaylists[j].c = 0
          /\ tokenPlaylists[j].n = <<>>
          /\ Len(tokenPlaylists[j].i) = 1
          /\ tokenPlaylists[j].i[1].a = 1
          /\ codec.decoded.state.playlists[j].items[1].addedAt = 1
          /\ codec.decoded.state.playlists[j].createdAt = now
    /\ \E j \in 1..Len(tokenPlaylists) :
          /\ tokenPlaylists[j].c = UNDEF_NUM
          /\ tokenPlaylists[j].n = <<"M">>

\* the playlist the application shows: the selected one, else the first
selectedPlaylist(s) ==
    IF \E i \in 1..Len(s.playlists) : s.playlists[i].id = s.selectedPlaylistId
    THEN playlistOf(s, s.selectedPlaylistId)
    ELSE s.playlists[1]

\* the token the share dialog shows for the collection under the options
shareLinkToken(s, opts) ==
    encodeShareFromState([s EXCEPT !.selectedPlaylistId = selectedPlaylist(s).id], opts)

\* C23: with scope "selected" the token encodes exactly one playlist, the
\* one whose id is the selectedPlaylistId, and no other; with scope "all",
\* or without a scope, it encodes every playlist of the state, in state order.
C23_ScopeSelectsPlaylists ==
    \A thumbs \in BOOLEAN :
        LET one == shareLinkToken(state, [scope |-> "selected", includeThumbnails |-> thumbs])
            all == shareLinkToken(state, [scope |-> "all", includeThumbnails |-> thumbs])
            none == shareLinkToken(state, [includeThumbnails |-> thumbs])
        IN /\ one.data.text.value.p
                = << sharePlaylist(selectedPlaylist(state), thumbs) >>
           /\ all.data.text.value.p
                = [j \in 1..Len(state.playlists) |->
                      sharePlaylist(state.playlists[j], thumbs)]
           /\ none = all

\* the playlists of the collection that went into the token, in order
sharedPlaylists ==
    LET IsSelected(pl) == pl.id = state.selectedPlaylistId
    IN IF scopeOf(codec.opts) = "selected"
       THEN SelectSeq(state.playlists, IsSelected)
       ELSE state.playlists

\* C24: every item decoded from encodeShareFromState(S, opts) has no
\* thumbnailUrl when includeThumbnails is false or left out, and the
\* thumbnailUrl of the item it was encoded from when includeThumbnails is true.
C24_ThumbnailsOnlyWhenAsked ==
    codec.pc = "decoded" =>
        /\ codec.decoded.ok
        /\ Len(codec.decoded.state.playlists) = Len(sharedPlaylists)
        /\ \A j \in 1..Len(sharedPlaylists) :
              LET items == codec.decoded.state.playlists[j].items
              IN /\ Len(items) = Len(sharedPlaylists[j].items)
                 /\ \A k \in 1..Len(items) :
                       items[k].thumbnailUrl =
                           IF "includeThumbnails" \in DOMAIN codec.opts
                              /\ codec.opts.includeThumbnails
                           THEN sharedPlaylists[j].items[k].thumbnailUrl
                           ELSE UNDEF

\* an item with a thumbnail went through the codec with the option left out
C24_Witness ==
    /\ codec.pc = "decoded"
    /\ "includeThumbnails" \notin DOMAIN codec.opts
    /\ \E j \in 1..Len(sharedPlaylists) :
          \E k \in 1..Len(sharedPlaylists[j].items) :
              /\ sharedPlaylists[j].items[k].thumbnailUrl # UNDEF
              /\ codec.decoded.state.playlists[j].items[k].thumbnailUrl = UNDEF

(***************************************************************************)
(* The save effect: the application saves the collection after every        *)
(* render in which it changed, the first one included.  codec keeps what    *)
(* localStorage holds and whether the effect has yet to run.                *)
(***************************************************************************)
\* what setItem is given: JSON.stringify of the collection, as the document
\* JSON.parse reads back; a property whose value is undefined is left out
saveStoredState(s) ==
    jsonDoc(TRUE, s.version, TRUE, s.playlists,
            s.selectedPlaylistId # UNDEF, s.selectedPlaylistId)

SaveInit ==
    /\ \E raw \in StoredRecords :
          /\ LET s == loadStoredState(raw, 1, 1)
             IN state = [s EXCEPT !.selectedPlaylistId = pickDefaultPlaylistId(s)]
          /\ nextId = IF loadSeeds(raw) THEN 2 ELSE 4
          /\ codec = [pc |-> "pending", stored |-> raw]
    /\ now = 1
    /\ last = NoLast
    /\ modal = NoModal

\* setState: the effect is due when the collection is another one
SaveSet(s) ==
    /\ state' = s
    /\ codec' = [codec EXCEPT !.pc = IF s = state THEN @ ELSE "pending"]
    /\ UNCHANGED <<nextId, now, last, modal>>

SaveSelectPlaylist ==
    \E playlistId \in PlaylistIds(state) :
        SaveSet([state EXCEPT !.selectedPlaylistId = playlistId])

SaveRenamePlaylist ==
    \E playlistId \in PlaylistIds(state), name \in AppNameInputs :
        LET pl == playlistOf(state, playlistId)
        IN SaveSet(upsertPlaylist(state,
                       [pl EXCEPT !.name = Or(trim(name), pl.name)]).state)

SaveImportJson ==
    \E file \in ImportDocuments :
        /\ importJson(file).ok
        /\ SaveSet(importJson(file).state)

saveEffect ==
    /\ codec.pc = "pending"
    /\ codec' = [pc |-> "saved", stored |-> saveStoredState(state)]
    /\ UNCHANGED <<state, nextId, now, last, modal>>

SaveNext ==
    \/ SaveSelectPlaylist
    \/ SaveRenamePlaylist
    \/ SaveImportJson
    \/ saveEffect

SpecSave == SaveInit /\ [][SaveNext]_vars

\* C25: once the save effect has run and no change of the collection is
\* waiting for it, localStorage holds the serialization of the current
\* collection, and loadStoredState gives a collection equal to it from there.
C25_SavedRecordLoadsBack ==
    codec.pc = "saved" =>
        /\ codec.stored = saveStoredState(state)
        /\ loadStoredState(codec.stored, nextId, now) = state

\* the ids of the items of the playlist of s with the given id
itemIdsOf(s, playlistId) ==
    UNION { {s.playlists[i].items[k].id : k \in 1..Len(s.playlists[i].items)} :
               i \in {h \in 1..Len(s.playlists) : s.playlists[h].id = playlistId} }

\* C26: moveVideo returns the state it was given, unchanged, when source and
\* destination are the same id, when the source or the destination is not a
\* playlist of the state, or when the item is not an item of the source.
C26_MoveNoOp ==
    (/\ last.op = "moveVideo"
     /\ \/ last.args.fromPlaylistId = last.args.toPlaylistId
        \/ last.args.fromPlaylistId \notin PlaylistIds(last.pre)
        \/ last.args.toPlaylistId \notin PlaylistIds(last.pre)
        \/ last.args.videoItemId
              \notin itemIdsOf(last.pre, last.args.fromPlaylistId))
        => last.same /\ state = last.pre

\* an item was moved within its own playlist, which holds another item too
C26_Witness ==
    /\ last.op = "moveVideo"
    /\ last.args.fromPlaylistId = last.args.toPlaylistId
    /\ last.args.videoItemId \in itemIdsOf(last.pre, last.args.fromPlaylistId)
    /\ Cardinality(itemIdsOf(last.pre, last.args.fromPlaylistId)) > 1
    /\ state = last.pre

\* C27: deletePlaylist on a state with at least two playlists removes
\* exactly the playlist with the given id and keeps the others in their
\* order; the selection becomes the first remaining playlist if the removed
\* one was selected, and stays as it was otherwise.
C27_DeleteRemovesOne ==
    (last.op = "delete" /\ Len(last.pre.playlists) >= 2) =>
        LET IsOther(pl) == pl.id # last.playlistId
        IN /\ state.playlists = SelectSeq(last.pre.playlists, IsOther)
           /\ Len(state.playlists) = Len(last.pre.playlists) - 1
           /\ state.selectedPlaylistId =
                  IF last.pre.selectedPlaylistId = last.playlistId
                  THEN state.playlists[1].id
                  ELSE last.pre.selectedPlaylistId

(***************************************************************************)
(* upsertPlaylist on its own: a collection and a playlist, then the state   *)
(* returned.  codec keeps the playlist given and the state before.          *)
(***************************************************************************)
UpsertMaxPlaylists == 2   \* playlists of the collection upsertPlaylist is given

\* the playlists of those collections: two ids, each under two names
UpsertHeld ==
    { mkPlaylist(newId("pl", n), name, 1, <<>>) :
        n \in 1..2, name \in {<<"m">>, <<"n">>} }

UpsertStates ==
    { [version |-> 1, playlists |-> pls, selectedPlaylistId |-> newId("pl", n)] :
        pls \in SeqsUpTo(UpsertHeld, UpsertMaxPlaylists) \ {<<>>}, n \in 1..2 }

\* the playlists given: one with each id held under a name of its own and
\* with an item, and one with a new id
UpsertGiven ==
    { mkPlaylist(newId("pl", n), <<"p">>, 2,
                 << mkItem(newId("v", 4), <<"x">>, UNDEF, UNDEF, UNDEF, UNDEF,
                           <<>>, 2) >>) : n \in 1..3 }

UpsertInit ==
    /\ state \in UpsertStates
    /\ codec \in {[pc |-> "given", playlist |-> pl] : pl \in UpsertGiven}
    /\ nextId = 5
    /\ now = 2
    /\ last = NoLast
    /\ modal = NoModal

UpsertApply ==
    /\ codec.pc = "given"
    /\ state' = upsertPlaylist(state, codec.playlist).state
    /\ codec' = [pc |-> "upserted", playlist |-> codec.playlist, pre |-> state]
    /\ UNCHANGED <<nextId, now, last, modal>>

UpsertNext == UpsertApply

SpecUpsert == UpsertInit /\ [][UpsertNext]_vars

playlistIdsDistinct(s) ==
    \A i, j \in 1..Len(s.playlists) :
        i # j => s.playlists[i].id # s.playlists[j].id

\* C28: when the state holds a playlist with P's id, upsertPlaylist(S, P)
\* has P at that playlist's position and every other playlist where it was,
\* as many as before; otherwise it has P followed by the playlists of S.
\* selectedPlaylistId is S's, and if no two playlists of S share an id, no
\* two playlists of the result do.
C28_UpsertReplacesOrPrepends ==
    codec.pc = "upserted" =>
        LET S == codec.pre
            P == codec.playlist
            held == {i \in 1..Len(S.playlists) : S.playlists[i].id = P.id}
        IN /\ held # {} =>
                LET at == CHOOSE i \in held : \A j \in held : i <= j
                IN /\ Len(state.playlists) = Len(S.playlists)
                   /\ state.playlists[at] = P
                   /\ \A j \in 1..Len(S.playlists) :
                         j # at => state.playlists[j] = S.playlists[j]
           /\ held = {} => state.playlists = <<P>> \o S.playlists
           /\ state.selectedPlaylistId = S.selectedPlaylistId
           /\ playlistIdsDistinct(S) => playlistIdsDistinct(state)

\* the second of two playlists was given anew
C28_Witness ==
    /\ codec.pc = "upserted"
    /\ Len(codec.pre.playlists) = 2
    /\ playlistIdsDistinct(codec.pre)
    /\ codec.pre.playlists[2].id = codec.playlist.id
    /\ codec.pre.playlists[2] # codec.playlist
    /\ state.playlists = <<codec.pre.playlists[1], codec.playlist>>

(***************************************************************************)
(* The store driven with patches of every field an item has: a             *)
(* Partial<VideoItem> may name id and addedAt as well as tags.              *)
(***************************************************************************)
PatchMaxIds == 3   \* identifiers minted in one run of the patch model

ItemPatches ==
    { [tags |-> << <<"t">> >>],
      [id |-> newId("v", 9)],
      [addedAt |-> 0] }

PatchUpsert ==
    /\ nextId <= PatchMaxIds
    /\ LET pl == mkPlaylist(newId("pl", nextId), <<"m">>, now, <<>>)
       IN StoreApply("upsertPlaylist", [playlist |-> pl], upsertPlaylist(state, pl))
    /\ nextId' = nextId + 1
    /\ UNCHANGED now

PatchAdd ==
    \E pid \in PlaylistIds(state), in \in StoreItemInputs :
        /\ nextId <= PatchMaxIds
        /\ LET item == mkItem(newId("v", nextId), in.url, in.videoId, UNDEF,
                              UNDEF, UNDEF, <<>>, now)
           IN StoreApply("addVideoToPlaylist", [playlistId |-> pid, item |-> item],
                         addVideoToPlaylist(state, pid, item))
        /\ nextId' = nextId + 1
        /\ UNCHANGED now

PatchUpdate ==
    \E pid \in PlaylistIds(state), vid \in ItemIds(state), patch \in ItemPatches :
        /\ StoreApply("updateVideoInPlaylist",
                      [playlistId |-> pid, videoItemId |-> vid, patch |-> patch],
                      updateVideoInPlaylist(state, pid, vid, patch))
        /\ UNCHANGED <<nextId, now>>

PatchNext ==
    \/ PatchUpsert
    \/ PatchAdd
    \/ PatchUpdate
    \/ StoreRemove
    \/ StoreMove

SpecPatch == StoreInit /\ [][PatchNext]_vars

\* C29: addVideoToPlaylist, removeVideoFromPlaylist, updateVideoInPlaylist
\* with any patch and moveVideo leave every item that is in the collection
\* with its id and its addedAt, and every playlist with its id.
C29_IdentityKept ==
    last.op \in {"addVideoToPlaylist", "removeVideoFromPlaylist",
                 "updateVideoInPlaylist", "moveVideo"} =>
        /\ \A v \in ItemsOf(state) :
              \/ \E w \in ItemsOf(last.pre) : w.id = v.id /\ w.addedAt = v.addedAt
              \/ last.op = "addVideoToPlaylist" /\ v = last.args.item
        /\ Len(state.playlists) = Len(last.pre.playlists)
        /\ \A i \in 1..Len(state.playlists) :
              state.playlists[i].id = last.pre.playlists[i].id

(***************************************************************************)
(* The store under a clock that goes on: two playlists, items added with    *)
(* addedAt read from the clock, removed, and moved between the playlists.   *)
(***************************************************************************)
ClockMaxIds == 4    \* identifiers minted in one run of the clock model
ClockMaxNow == 3    \* the time the clock reaches

ClockInit ==
    /\ state = [version |-> 1,
                playlists |-> << mkPlaylist(newId("pl", 1), DefaultName, 1, <<>>),
                                 mkPlaylist(newId("pl", 2), <<"m">>, 1, <<>>) >>,
                selectedPlaylistId |-> newId("pl", 1)]
    /\ nextId = 3
    /\ now = 1
    /\ last = NoLast
    /\ modal = NoModal
    /\ codec = NoCodec

\* Date.now() is later than it was
ClockTick ==
    /\ last = NoLast
    /\ now < ClockMaxNow
    /\ now' = now + 1
    /\ UNCHANGED <<state, nextId, last, modal, codec>>

ClockAdd ==
    \E pid \in PlaylistIds(state), in \in AppItemInputs :
        /\ nextId <= ClockMaxIds
        /\ LET item == mkItem(newId("v", nextId), in.url, in.videoId, UNDEF,
                              UNDEF, UNDEF, <<>>, now)
           IN StoreApply("addVideoToPlaylist", [playlistId |-> pid, item |-> item],
                         addVideoToPlaylist(state, pid, item))
        /\ nextId' = nextId + 1
        /\ UNCHANGED now

ClockNext ==
    \/ ClockTick
    \/ ClockAdd
    \/ StoreRemove
    \/ StoreMove

SpecClock == ClockInit /\ [][ClockNext]_vars

\* every playlist's items from the latest addedAt to the earliest
newestFirst(s) ==
    \A i \in 1..Len(s.playlists) :
        \A k \in 1..(Len(s.playlists[i].items) - 1) :
            s.playlists[i].items[k].addedAt >= s.playlists[i].items[k + 1].addedAt

\* C30 as stated: in every state reached through add, remove and move under
\* a clock that does not go back, the items of each playlist are ordered
\* most-recently-added first: of two adjacent items the earlier one's
\* addedAt is greater than or equal to the later one's.
C30_NewestFirstStated == newestFirst(state)

\* C30, amended: addVideoToPlaylist under a clock that does not go back and
\* removeVideoFromPlaylist keep the items of each playlist ordered by addedAt,
\* latest first; moveVideo puts the moved item, with the addedAt it has, first
\* in the destination and keeps the order of the other items.
C30_AddRemoveKeepNewestFirst ==
    /\ (last.op \in {"addVideoToPlaylist", "removeVideoFromPlaylist"}
        /\ newestFirst(last.pre)) => newestFirst(state)
    /\ (last.op = "moveVideo" /\ ~last.same) =>
          LET from == playlistOf(last.pre, last.args.fromPlaylistId)
              to == playlistOf(last.pre, last.args.toPlaylistId)
              item == itemOf(from, last.args.videoItemId)
              IsOther(v) == v.id # last.args.videoItemId
              dest == playlistOf(state, last.args.toPlaylistId).items
          IN /\ playlistOf(state, last.args.fromPlaylistId).items
                   = SelectSeq(from.items, IsOther)
             /\ dest = to.items \/ dest = <<item>> \o to.items

\* an item added earlier was moved in front of an item added later
C30_Witness ==
    /\ last.op = "moveVideo"
    /\ ~last.same
    /\ newestFirst(last.pre)
    /\ ~newestFirst(state)
    /\ LET dest == playlistOf(state, last.args.toPlaylistId).items
       IN /\ Len(dest) >= 2
          /\ dest[1].id = last.args.videoItemId
          /\ dest[1].addedAt < dest[2].addedAt

(***************************************************************************)
(* Strings of the share link: base64url, encodeURIComponent, the parts of   *)
(* a URL and URLSearchParams, each computed over the characters.            *)
(***************************************************************************)
startsWith(s, p) == Len(s) >= Len(p) /\ SubSeq(s, 1, Len(p)) = p

\* String.prototype.indexOf for one character, counted from 1; 0 for -1
indexOf(s, c) ==
    IF \E i \in 1..Len(s) : s[i] = c
    THEN CHOOSE i \in 1..Len(s) : s[i] = c /\ \A j \in 1..(i - 1) : s[j] # c
    ELSE 0

\* s.slice(i) with i counted from 1
sliceFrom(s, i) == SubSeq(s, i, Len(s))

RECURSIVE splitOn(_, _)
splitOn(s, c) ==
    IF indexOf(s, c) = 0 THEN <<s>>
    ELSE <<SubSeq(s, 1, indexOf(s, c) - 1)>> \o splitOn(sliceFrom(s, indexOf(s, c) + 1), c)

\* .replace(/\+/g, "-").replace(/\//g, "_").replace(/=+$/g, "") on the
\* characters btoa gave
RECURSIVE stripPadding(_)
stripPadding(s) ==
    IF s # <<>> /\ s[Len(s)] = "=" THEN stripPadding(SubSeq(s, 1, Len(s) - 1)) ELSE s

base64UrlEncode(b64) ==
    stripPadding([i \in 1..Len(b64) |->
                     IF b64[i] = "+" THEN "-" ELSE IF b64[i] = "/" THEN "_" ELSE b64[i]])

\* the escape encodeURIComponent writes for a character it does not keep
PercentEscapes ==
    [c \in {" ", "+", "&", "=", "#", "?", "%", "/", ":"} |->
        CASE c = " " -> <<"%", "2", "0">>
          [] c = "+" -> <<"%", "2", "B">>
          [] c = "&" -> <<"%", "2", "6">>
          [] c = "=" -> <<"%", "3", "D">>
          [] c = "#" -> <<"%", "2", "3">>
          [] c = "?" -> <<"%", "3", "F">>
          [] c = "%" -> <<"%", "2", "5">>
          [] c = "/" -> <<"%", "2", "F">>
          [] c = ":" -> <<"%", "3", "A">>]

RECURSIVE encodeURIComponent(_)
encodeURIComponent(s) ==
    IF s = <<>> THEN <<>>
    ELSE (IF Head(s) \in DOMAIN PercentEscapes THEN PercentEscapes[Head(s)]
          ELSE <<Head(s)>>) \o encodeURIComponent(Tail(s))

\* the decoding URLSearchParams applies to a name or a value: + is a blank
\* and %XX the character
RECURSIVE formDecode(_)
formDecode(s) ==
    IF s = <<>> THEN <<>>
    ELSE IF Head(s) = "+" THEN <<" ">> \o formDecode(Tail(s))
    ELSE IF Head(s) = "%" /\ Len(s) >= 3
            /\ \E c \in DOMAIN PercentEscapes : PercentEscapes[c] = SubSeq(s, 1, 3)
         THEN <<CHOOSE c \in DOMAIN PercentEscapes : PercentEscapes[c] = SubSeq(s, 1, 3)>>
              \o formDecode(sliceFrom(s, 4))
    ELSE <<Head(s)>> \o formDecode(Tail(s))

\* new URLSearchParams(query).get(name): the value of the first pair with
\* the name, UNDEF for null
searchParamsGet(query, name) ==
    LET pieces == splitOn(query, "&")
        nameOf(p) == formDecode(IF indexOf(p, "=") = 0 THEN p
                                ELSE SubSeq(p, 1, indexOf(p, "=") - 1))
        valueOf(p) == formDecode(IF indexOf(p, "=") = 0 THEN <<>>
                                 ELSE sliceFrom(p, indexOf(p, "=") + 1))
        hits == {i \in 1..Len(pieces) : pieces[i] # <<>> /\ nameOf(pieces[i]) = name}
    IN IF hits = {} THEN UNDEF
       ELSE valueOf(pieces[CHOOSE i \in hits : \A j \in hits : i <= j])

\* window.location.origin of the application
Origin == <<"h", ":", "/", "/", "a">>

\* new URL(s) for the strings the model meets: one that does not begin with
\* the origin is no URL; hash is "" for an empty fragment
parseUrl(s) ==
    IF ~startsWith(s, Origin) THEN [ok |-> FALSE]
    ELSE LET rest == sliceFrom(s, Len(Origin) + 1)
             h == indexOf(rest, "#")
             beforeHash == IF h = 0 THEN rest ELSE SubSeq(rest, 1, h - 1)
             q == indexOf(beforeHash, "?")
         IN [ok |-> TRUE,
             search |-> IF q = 0 THEN <<>> ELSE sliceFrom(beforeHash, q + 1),
             hash |-> IF h = 0 \/ h = Len(rest) THEN <<>> ELSE sliceFrom(rest, h)]

\* looks at the query string only
extractSharePayloadFromUrlOrHash_queryOnly(input) ==
    LET s == trim(input)
        u == parseUrl(s)
    IN IF s = <<>> THEN UNDEF
       ELSE IF startsWith(s, V1Prefix) THEN s
       ELSE IF ~u.ok THEN UNDEF
       ELSE Or(searchParamsGet(u.search, <<"d">>), UNDEF)

extractSharePayloadFromUrlOrHash(input) ==
    LET s == trim(input)
        u == parseUrl(s)
        idx == indexOf(u.hash, "?")
        d == IF idx # 0 THEN searchParamsGet(sliceFrom(u.hash, idx + 1), <<"d">>)
             ELSE UNDEF
    IN IF s = <<>> THEN UNDEF
       ELSE IF startsWith(s, V1Prefix) THEN s
       ELSE IF ~u.ok THEN UNDEF
       ELSE IF d # UNDEF /\ d # <<>> THEN d
       ELSE Or(searchParamsGet(u.search, <<"d">>), UNDEF)

\* the link the share dialog builds around a token, the application served
\* from the path "/"
shareLink(encoded) ==
    Origin \o <<"/">> \o <<"#", "/", "i", "m", "p", "o", "r", "t", "?", "d", "=">>
           \o encodeURIComponent(encoded)

(***************************************************************************)
(* extractSharePayloadFromUrlOrHash on its own: a pasted text, then what    *)
(* is extracted from it.  codec keeps the text, the form it was written in  *)
(* and the token it was written around.                                     *)
(***************************************************************************)
\* what btoa gives for the deflated bytes of some collections
Base64Samples ==
    { <<"A">>, <<"+", "/">>, <<"a", "9", "=", "=">>, <<"A", "+", "/", "=">>,
      <<"/", "w", "=">> }

\* the tokens encodeShareFromState makes of them
ShareTokens == { V1Prefix \o base64UrlEncode(b64) : b64 \in Base64Samples }

Pasted(form, encoded, text) == [form |-> form, encoded |-> encoded, text |-> text]

\* the texts pasted: the three forms around each token, and texts of no form
PastedTexts ==
    LET sp == <<" ">>
        root == Origin \o <<"/">>
        import == <<"#", "/", "i", "m", "p", "o", "r", "t">>
        d == <<"d", "=">>
        e == <<"e", "=", "1", "&">>
    IN UNION {
         { Pasted("bare", T, T), Pasted("bare", T, sp \o T),
           Pasted("bare", T, T \o sp), Pasted("bare", T, sp \o T \o sp),
           Pasted("fragment", T, shareLink(T)),
           Pasted("fragment", T, sp \o shareLink(T) \o sp),
           Pasted("fragment", T, root \o import \o <<"?">> \o e \o d \o T),
           Pasted("fragment", T, root \o <<"?">> \o d \o <<"x">> \o import
                                      \o <<"?">> \o d \o T),
           Pasted("query", T, root \o <<"?">> \o d \o T),
           Pasted("query", T, root \o <<"?">> \o e \o d \o T \o import),
           Pasted("query", T, root \o <<"?">> \o d \o T \o import \o <<"?">> \o d),
           Pasted("none", T, <<"x">> \o T),
           Pasted("none", T, root \o import \o <<"&">> \o d \o T),
           Pasted("none", T, root \o <<"#">> \o d \o T),
           Pasted("none", T, root \o <<"?">> \o <<"e", "=">> \o T),
           Pasted("none", T, root \o import \o <<"?">> \o <<"e", "=">> \o T),
           Pasted("none", T, <<"/">> \o import \o <<"?">> \o d \o T) } :
         T \in ShareTokens }
       \cup { Pasted("none", <<>>, text) :
                text \in { <<>>, sp, <<"a", "b">>, root, root \o import,
                           root \o <<"?">> \o d, root \o import \o <<"?">> \o d,
                           root \o <<"#">> } }

ExtractInit ==
    /\ state = defaultState(1, 1)
    /\ codec \in {[pc |-> "pasted", input |-> input] : input \in PastedTexts}
    /\ nextId = 2
    /\ now = 1
    /\ last = NoLast
    /\ modal = NoModal

ExtractRun ==
    /\ codec.pc = "pasted"
    /\ codec' = [pc |-> "extracted", input |-> codec.input,
                 payload |-> extractSharePayloadFromUrlOrHash(codec.input.text)]
    /\ UNCHANGED <<state, nextId, now, last, modal>>

ExtractNext == ExtractRun

SpecExtract == ExtractInit /\ [][ExtractNext]_vars

\* C31: extractSharePayloadFromUrlOrHash returns the token for a text that
\* is the token itself, a URL whose fragment query has the parameter d, or a
\* URL whose query string has the parameter d, and returns undefined for
\* every other text; from the share link the application builds around a
\* token of encodeShareFromState it returns exactly that token.
C31_ExtractsTokenOfThreeForms ==
    codec.pc = "extracted" =>
        /\ codec.input.form \in {"bare", "fragment", "query"}
              => codec.payload = codec.input.encoded
        /\ codec.input.form = "none" => codec.payload = UNDEF
        /\ \A T \in ShareTokens :
              codec.input.text = shareLink(T) => codec.payload = T

\* the token came back from the share link built around it, the token
\* holding the characters base64url writes for + and /
C31_Witness ==
    /\ codec.pc = "extracted"
    /\ codec.input.text = shareLink(codec.input.encoded)
    /\ codec.payload = codec.input.encoded
    /\ \E i \in 1..Len(codec.payload) : codec.payload[i] = "-"
    /\ \E i \in 1..Len(codec.payload) : codec.payload[i] = "_"

(***************************************************************************)
(* The URL normalizer: new URL, hostname, pathname, searchParams and        *)
(* toString over the characters of https URLs.                              *)
(***************************************************************************)
HttpsScheme == <<"h", "t", "t", "p", "s", ":", "/", "/">>

\* the position of the first character of s that is in the set, 0 if none
firstOf(s, chars) ==
    IF \E i \in 1..Len(s) : s[i] \in chars
    THEN CHOOSE i \in 1..Len(s) : s[i] \in chars /\ \A j \in 1..(i - 1) : s[j] \notin chars
    ELSE 0

\* new URL(s) for https URLs: scheme and host in lower case, the path "/"
\* when there is none, query and fragment null (UNDEF) when not written
newURL(s) ==
    IF ~startsWith(toLowerCase(s), HttpsScheme) THEN [ok |-> FALSE]
    ELSE LET rest == sliceFrom(s, Len(HttpsScheme) + 1)
             e == firstOf(rest, {"/", "?", "#"})
             host == IF e = 0 THEN rest ELSE SubSeq(rest, 1, e - 1)
             tail == IF e = 0 THEN <<>> ELSE sliceFrom(rest, e)
             h == indexOf(tail, "#")
             beforeHash == IF h = 0 THEN tail ELSE SubSeq(tail, 1, h - 1)
             q == indexOf(beforeHash, "?")
             path == IF q = 0 THEN beforeHash ELSE SubSeq(beforeHash, 1, q - 1)
         IN IF host = <<>> \/ \E i \in 1..Len(host) : host[i] \in WhiteSpace
            THEN [ok |-> FALSE]
            ELSE [ok |-> TRUE,
                  hostname |-> toLowerCase(host),
                  pathname |-> IF path = <<>> THEN <<"/">> ELSE path,
                  query |-> IF q = 0 THEN UNDEF ELSE sliceFrom(beforeHash, q + 1),
                  fragment |-> IF h = 0 THEN UNDEF ELSE sliceFrom(tail, h + 1)]

urlToString(u) ==
    HttpsScheme \o u.hostname \o u.pathname
        \o (IF u.query = UNDEF THEN <<>> ELSE <<"?">> \o u.query)
        \o (IF u.fragment = UNDEF THEN <<>> ELSE <<"#">> \o u.fragment)

\* the name-value pairs of a query, decoded
searchParams(query) ==
    LET pieces == IF query = UNDEF THEN <<>> ELSE splitOn(query, "&")
        NonEmpty(p) == p # <<>>
        kept == SelectSeq(pieces, NonEmpty)
    IN [i \in 1..Len(kept) |->
           LET p == kept[i]
               eq == indexOf(p, "=")
           IN [name |-> formDecode(IF eq = 0 THEN p ELSE SubSeq(p, 1, eq - 1)),
               value |-> formDecode(IF eq = 0 THEN <<>> ELSE sliceFrom(p, eq + 1))]]

\* the serializer of URLSearchParams: a blank is +, and what
\* encodeURIComponent escapes is escaped
RECURSIVE formEncode(_)
formEncode(s) ==
    IF s = <<>> THEN <<>>
    ELSE (IF Head(s) = " " THEN <<"+">>
          ELSE IF Head(s) \in DOMAIN PercentEscapes THEN PercentEscapes[Head(s)]
          ELSE <<Head(s)>>) \o formEncode(Tail(s))

RECURSIVE serializeParams(_)
serializeParams(pairs) ==
    IF pairs = <<>> THEN <<>>
    ELSE formEncode(Head(pairs).name) \o <<"=">> \o formEncode(Head(pairs).value)
         \o (IF Len(pairs) > 1 THEN <<"&">> ELSE <<>>) \o serializeParams(Tail(pairs))

\* pathname.split("/")
pathSegments(pathname) == splitOn(pathname, "/")

KeepParams ==
    { <<"v">>, <<"t">>, <<"s", "t", "a", "r", "t">>, <<"l", "i", "s", "t">>, <<"i", "n", "d", "e", "x">>, <<"s", "i">> }

WwwPrefix == <<"w", "w", "w", ".">>

\* deletes the parameter v with the others
normalizeYouTubeUrl_dropV(input) ==
    LET trimmed == trim(input)
        url == newURL(trimmed)
        host == IF startsWith(url.hostname, WwwPrefix)
                THEN sliceFrom(url.hostname, Len(WwwPrefix) + 1) ELSE url.hostname
        segments == pathSegments(url.pathname)
        NonEmpty(p) == p # <<>>
        named == SelectSeq(segments, NonEmpty)
        params == searchParams(url.query)
        vs == {i \in 1..Len(params) : params[i].name = <<"v">>}
        v == IF vs = {} THEN UNDEF
             ELSE params[CHOOSE i \in vs : \A j \in vs : i <= j].value
        third == IF Len(segments) >= 3 THEN segments[3] ELSE UNDEF
        videoId ==
            IF host = <<"y", "o", "u", "t", "u", ".", "b", "e">>
            THEN IF named # <<>> THEN named[1] ELSE UNDEF
            ELSE IF host \in { <<"y", "o", "u", "t", "u", "b", "e", ".", "c", "o", "m">>, <<"m", ".", "y", "o", "u", "t", "u", "b", "e", ".", "c", "o", "m">>, <<"m", "u", "s", "i", "c", ".", "y", "o", "u", "t", "u", "b", "e", ".", "c", "o", "m">> }
            THEN IF url.pathname = <<"/", "w", "a", "t", "c", "h">> THEN Or(v, UNDEF)
                 ELSE IF startsWith(url.pathname, <<"/", "s", "h", "o", "r", "t", "s", "/">>) THEN Or(third, UNDEF)
                 ELSE IF startsWith(url.pathname, <<"/", "e", "m", "b", "e", "d", "/">>) THEN Or(third, UNDEF)
                 ELSE UNDEF
            ELSE UNDEF
        Kept(pair) == pair.name \in KeepParams \ {<<"v">>}
        keptParams == SelectSeq(params, Kept)
        cleaned == IF keptParams = params THEN url
                   ELSE [url EXCEPT !.query = IF keptParams = <<>> THEN UNDEF
                                               ELSE serializeParams(keptParams)]
    IN IF ~url.ok THEN [url |-> trimmed, videoId |-> UNDEF]
       ELSE [url |-> urlToString(cleaned), videoId |-> videoId]

normalizeYouTubeUrl(input) ==
    LET trimmed == trim(input)
        url == newURL(trimmed)
        host == IF startsWith(url.hostname, WwwPrefix)
                THEN sliceFrom(url.hostname, Len(WwwPrefix) + 1) ELSE url.hostname
        segments == pathSegments(url.pathname)
        NonEmpty(p) == p # <<>>
        named == SelectSeq(segments, NonEmpty)
        params == searchParams(url.query)
        vs == {i \in 1..Len(params) : params[i].name = <<"v">>}
        v == IF vs = {} THEN UNDEF
             ELSE params[CHOOSE i \in vs : \A j \in vs : i <= j].value
        third == IF Len(segments) >= 3 THEN segments[3] ELSE UNDEF
        videoId ==
            IF host = <<"y", "o", "u", "t", "u", ".", "b", "e">>
            THEN IF named # <<>> THEN named[1] ELSE UNDEF
            ELSE IF host \in { <<"y", "o", "u", "t", "u", "b", "e", ".", "c", "o", "m">>, <<"m", ".", "y", "o", "u", "t", "u", "b", "e", ".", "c", "o", "m">>, <<"m", "u", "s", "i", "c", ".", "y", "o", "u", "t", "u", "b", "e", ".", "c", "o", "m">> }
            THEN IF url.pathname = <<"/", "w", "a", "t", "c", "h">> THEN Or(v, UNDEF)
                 ELSE IF startsWith(url.pathname, <<"/", "s", "h", "o", "r", "t", "s", "/">>) THEN Or(third, UNDEF)
                 ELSE IF startsWith(url.pathname, <<"/", "e", "m", "b", "e", "d", "/">>) THEN Or(third, UNDEF)
                 ELSE UNDEF
            ELSE UNDEF
        Kept(pair) == pair.name \in KeepParams
        keptParams == SelectSeq(params, Kept)
        cleaned == IF keptParams = params THEN url
                   ELSE [url EXCEPT !.query = IF keptParams = <<>> THEN UNDEF
                                               ELSE serializeParams(keptParams)]
    IN IF ~url.ok THEN [url |-> trimmed, videoId |-> UNDEF]
       ELSE [url |-> urlToString(cleaned), videoId |-> videoId]

(***************************************************************************)
(* normalizeYouTubeUrl on its own: a pasted text, the result, and the       *)
(* result of normalizing that result's url.  codec keeps the three.         *)
(***************************************************************************)
UrlSchemes == { <<"h", "t", "t", "p", "s", ":", "/", "/">>, <<"H", "T", "T", "P", "S", ":", "/", "/">> }

UrlHosts ==
    { <<"y", "o", "u", "t", "u", ".", "b", "e">>,
          <<"w", "w", "w", ".", "y", "o", "u", "t", "u", "b", "e", ".", "c", "o", "m">>,
          <<"m", ".", "y", "o", "u", "t", "u", "b", "e", ".", "c", "o", "m">>,
          <<"Y", "o", "u", "t", "u", "b", "e", ".", "c", "o", "m">>,
          <<"a", ".", "b">> }

UrlPaths ==
    { <<>>,
          <<"/">>,
          <<"/", "w", "a", "t", "c", "h">>,
          <<"/", "s", "h", "o", "r", "t", "s", "/", "a", "b">>,
          <<"/", "e", "m", "b", "e", "d", "/", "a", "b">>,
          <<"/", "a", "b">>,
          <<"/", "s", "h", "o", "r", "t", "s", "/">> }

\* the query written after the path, "?" included; none, empty, and with
\* parameters that are kept and that are deleted
UrlQueries ==
    { <<>>,
          <<"?">>,
          <<"?", "v", "=", "a", "b">>,
          <<"?", "f", "=", "1">>,
          <<"?", "v", "=", "a", "b", "&", "f", "=", "1">>,
          <<"?", "f", "=", "1", "&", "v", "=", "a", "%", "2", "0", "b">>,
          <<"?", "v", "=", "a", "+", "b", "&", "t", "=", "1">>,
          <<"?", "v", "=", "&", "f", "=", "1">> }

UrlFragments == { <<>>, <<"#", "t">> }

\* texts that are no https URL
PlainTexts ==
    { <<>>,
          <<" ">>,
          <<"a", "b">>,
          <<"y", "o", "u", "t", "u", ".", "b", "e", "/", "a", "b">>,
          <<" ", "a", "b", " ">>,
          <<"h", "t", "t", "p", "s", ":", "/", "/">> }

NormalizerInputs ==
    { pad \o scheme \o host \o path \o query \o fragment \o pad :
        pad \in {<<>>, <<" ">>}, scheme \in UrlSchemes, host \in UrlHosts,
        path \in UrlPaths, query \in UrlQueries, fragment \in UrlFragments }
    \cup PlainTexts

NormalizeInit ==
    /\ state = defaultState(1, 1)
    /\ codec \in {[pc |-> "pasted", input |-> input] : input \in NormalizerInputs}
    /\ nextId = 2
    /\ now = 1
    /\ last = NoLast
    /\ modal = NoModal

NormalizeOnce ==
    /\ codec.pc = "pasted"
    /\ codec' = [pc |-> "normalized", input |-> codec.input,
                 first |-> normalizeYouTubeUrl(codec.input)]
    /\ UNCHANGED <<state, nextId, now, last, modal>>

NormalizeAgain ==
    /\ codec.pc = "normalized"
    /\ codec' = [pc |-> "again", input |-> codec.input, first |-> codec.first,
                 second |-> normalizeYouTubeUrl(codec.first.url)]
    /\ UNCHANGED <<state, nextId, now, last, modal>>

NormalizeNext ==
    \/ NormalizeOnce
    \/ NormalizeAgain

SpecNormalize == NormalizeInit /\ [][NormalizeNext]_vars

\* C32: normalizeYouTubeUrl is idempotent: normalizing the url of a result
\* gives the same url and the same videoId as that result.
C32_NormalizeIdempotent ==
    codec.pc = "again" =>
        /\ codec.second.url = codec.first.url
        /\ codec.second.videoId = codec.first.videoId

\* a watch URL whose query was rewritten went through twice
C32_Witness ==
    /\ codec.pc = "again"
    /\ codec.first.videoId # UNDEF
    /\ codec.first.url # trim(codec.input)
    /\ \E i \in 1..Len(codec.input) : codec.input[i] = "&"
    /\ codec.second = codec.first

(***************************************************************************)
(* Tags and search.                                                         *)
(***************************************************************************)
normalize(s) == toLowerCase(trim(s))

\* .replace(/^#/, "")
stripHash(s) == IF s # <<>> /\ Head(s) = "#" THEN Tail(s) ELSE s

\* input.split(/[,\n]/g)
RECURSIVE splitTags(_)
splitTags(s) ==
    LET i == IF \E k \in 1..Len(s) : s[k] \in {",", "\n"}
             THEN CHOOSE k \in 1..Len(s) :
                      s[k] \in {",", "\n"} /\ \A j \in 1..(k - 1) : s[j] \notin {",", "\n"}
             ELSE 0
    IN IF i = 0 THEN <<s>>
       ELSE <<SubSeq(s, 1, i - 1)>> \o splitTags(sliceFrom(s, i + 1))

\* the loop over the parts from position i on, out the tags pushed so far
RECURSIVE pushTags(_, _, _)
pushTags(parts, i, out) ==
    IF i > Len(parts) THEN out
    ELSE LET t == trim(stripHash(parts[i]))
             seen == \E k \in 1..Len(out) : normalize(out[k]) = normalize(t)
         IN pushTags(parts, i + 1,
                     IF t = <<>> \/ seen THEN out ELSE Append(out, t))

\* keeps every tag, also one that is there in another casing
parseTagsInput_noDedup(input) ==
    LET split == splitTags(input)
        trimmed == [i \in 1..Len(split) |-> trim(stripHash(trim(split[i])))]
        NonEmpty(p) == p # <<>>
    IN SelectSeq(trimmed, NonEmpty)

parseTagsInput(input) ==
    LET split == splitTags(input)
        trimmed == [i \in 1..Len(split) |-> trim(split[i])]
        NonEmpty(p) == p # <<>>
    IN pushTags(SelectSeq(trimmed, NonEmpty), 1, <<>>)

(***************************************************************************)
(* parseTagsInput on its own: what was typed, then the tags.                *)
(***************************************************************************)
MaxTagInput == 4   \* characters typed into the tag field

TagChars == {"a", "A", "b", "#", ",", " ", "\n"}

\* the spec's example
TagExample == <<"a", ",", " ", "#", "a", ",", " ", "A", ",", " ", "b">>

TagInputs == SeqsUpTo(TagChars, MaxTagInput) \cup {TagExample}

TagsInit ==
    /\ state = defaultState(1, 1)
    /\ codec \in {[pc |-> "typed", input |-> input] : input \in TagInputs}
    /\ nextId = 2
    /\ now = 1
    /\ last = NoLast
    /\ modal = NoModal

TagsParse ==
    /\ codec.pc = "typed"
    /\ codec' = [pc |-> "parsed", input |-> codec.input,
                 tags |-> parseTagsInput(codec.input)]
    /\ UNCHANGED <<state, nextId, now, last, modal>>

\* tags.join(" ")
RECURSIVE joinTags_blank(_)
joinTags_blank(tags) ==
    IF tags = <<>> THEN <<>>
    ELSE Head(tags) \o (IF Len(tags) > 1 THEN <<" ">> ELSE <<>>)
         \o joinTags_blank(Tail(tags))

\* tags.join(", ")
RECURSIVE joinTags(_)
joinTags(tags) ==
    IF tags = <<>> THEN <<>>
    ELSE Head(tags) \o (IF Len(tags) > 1 THEN <<",", " ">> ELSE <<>>)
         \o joinTags(Tail(tags))

\* the tag editor opened on the tags and saved as it shows them
TagsEdit ==
    /\ codec.pc = "parsed"
    /\ codec' = [pc |-> "edited", input |-> codec.input, tags |-> codec.tags,
                 saved |-> parseTagsInput(joinTags(codec.tags))]
    /\ UNCHANGED <<state, nextId, now, last, modal>>

TagsNext ==
    \/ TagsParse
    \/ TagsEdit

SpecTags == TagsInit /\ [][TagsNext]_vars

\* the tokens of the text typed: the parts between commas and newlines,
\* trimmed and without a leading #
typedTokens ==
    LET parts == splitTags(codec.input)
    IN [i \in 1..Len(parts) |-> trim(stripHash(trim(parts[i])))]

\* C33: parseTagsInput returns the comma- and newline-separated tokens,
\* trimmed and with a leading # stripped, in first-seen order: no tag
\* returned is empty, no two are equal ignoring case, each is the first
\* token of its casing-blind spelling, and every token that is not empty is
\* there in some casing.
C33_TagsParsed ==
    codec.pc = "parsed" =>
        LET out == codec.tags
            firstAt(t) == CHOOSE i \in 1..Len(typedTokens) :
                              /\ toLowerCase(typedTokens[i]) = toLowerCase(t)
                              /\ \A j \in 1..(i - 1) :
                                    toLowerCase(typedTokens[j]) # toLowerCase(t)
        IN /\ \A k \in 1..Len(out) : out[k] # <<>>
           /\ \A k, l \in 1..Len(out) :
                 k # l => toLowerCase(out[k]) # toLowerCase(out[l])
           /\ \A k \in 1..Len(out) :
                 /\ \E i \in 1..Len(typedTokens) : typedTokens[i] = out[k]
                 /\ typedTokens[firstAt(out[k])] = out[k]
           /\ \A k, l \in 1..Len(out) : k < l => firstAt(out[k]) < firstAt(out[l])
           /\ \A i \in 1..Len(typedTokens) :
                 typedTokens[i] # <<>> =>
                     \E k \in 1..Len(out) :
                         toLowerCase(out[k]) = toLowerCase(typedTokens[i])
           /\ codec.input = TagExample => out = << <<"a">>, <<"b">> >>

\* the example of the spec was parsed
C33_Witness ==
    /\ codec.pc = "parsed"
    /\ codec.input = TagExample
    /\ codec.tags = << <<"a">>, <<"b">> >>

\* C40 as stated: for every tag list T that parseTagsInput produced,
\* parseTagsInput of T joined with ", " is T: the tag editor saved without
\* typing leaves the tags as they were.
C40_EditRoundTripStated ==
    codec.pc = "edited" => codec.saved = codec.tags

\* C40, amended: for every tag list T that parseTagsInput produced and in
\* which no tag begins with #, parseTagsInput of T joined with ", " is T.
C40_EditRoundTripWithoutHash ==
    (/\ codec.pc = "edited"
     /\ \A k \in 1..Len(codec.tags) : Head(codec.tags[k]) # "#")
        => codec.saved = codec.tags

\* two tags in two casings went through the editor
C40_Witness ==
    /\ codec.pc = "edited"
    /\ Len(codec.tags) = 2
    /\ \A k \in 1..Len(codec.tags) : Head(codec.tags[k]) # "#"
    /\ codec.tags[1] # toLowerCase(codec.tags[1])
    /\ codec.saved = codec.tags

\* String.prototype.includes
includes(s, part) ==
    \E i \in 0..(Len(s) - Len(part)) : SubSeq(s, i + 1, i + Len(part)) = part

\* s.split(/\s+/g).filter(Boolean)
RECURSIVE splitWords(_)
splitWords(s) ==
    LET t == trimStart(s)
        e == firstOf(t, WhiteSpace)
    IN IF t = <<>> THEN <<>>
       ELSE IF e = 0 THEN <<t>>
       ELSE <<SubSeq(t, 1, e - 1)>> \o splitWords(sliceFrom(t, e))

\* looks for the text in the title and not in the sourceTitle
matchItem_titleOnly(item, query) ==
    LET q == normalize(query)
        tokens == splitWords(q)
        title == normalize(Or(item.title, <<>>))
        url == normalize(item.url)
        vid == normalize(Or(item.videoId, <<>>))
        tags == {normalize(stripHash(item.tags[k])) : k \in 1..Len(item.tags)}
    IN \/ q = <<>>
       \/ \A i \in 1..Len(tokens) :
             IF Head(tokens[i]) = "#" THEN Tail(tokens[i]) \in tags
             ELSE \/ includes(title, tokens[i])
                  \/ includes(url, tokens[i])
                  \/ includes(vid, tokens[i])

matchItem(item, query) ==
    LET q == normalize(query)
        tokens == splitWords(q)
        title == normalize(Or(Or(item.title, item.sourceTitle), <<>>))
        url == normalize(item.url)
        vid == normalize(Or(item.videoId, <<>>))
        tags == {normalize(stripHash(item.tags[k])) : k \in 1..Len(item.tags)}
    IN \/ q = <<>>
       \/ \A i \in 1..Len(tokens) :
             IF Head(tokens[i]) = "#" THEN Tail(tokens[i]) \in tags
             ELSE \/ includes(title, tokens[i])
                  \/ includes(url, tokens[i])
                  \/ includes(vid, tokens[i])

(***************************************************************************)
(* matchItem on its own: an item and a query, then whether they match.      *)
(***************************************************************************)
MaxQuery == 4   \* characters typed into the search field

QueryChars == {"a", "B", "#", " "}

\* items searched: with and without title, sourceTitle and videoId, and
\* with the tag lists the tag field gives
SearchItems ==
    { mkItem(newId("v", 1), <<"x">>, videoId, title, UNDEF, sourceTitle, tags, 1) :
        title \in {UNDEF, <<>>, <<"A", "b">>},
        sourceTitle \in {UNDEF, <<"b", "a">>},
        videoId \in {UNDEF, <<"B", "B">>},
        tags \in { parseTagsInput(typed) :
                     typed \in { <<>>, <<"A">>, <<"a", ",", "B">>, <<"#", "#", "a">>,
                                 <<"#", "#">> } } }

SearchInit ==
    /\ state = defaultState(1, 1)
    /\ codec \in {[pc |-> "typed", item |-> item, query |-> query] :
                     item \in SearchItems, query \in SeqsUpTo(QueryChars, MaxQuery)}
    /\ nextId = 2
    /\ now = 1
    /\ last = NoLast
    /\ modal = NoModal

SearchMatch ==
    /\ codec.pc = "typed"
    /\ codec' = [pc |-> "matched", item |-> codec.item, query |-> codec.query,
                 matches |-> matchItem(codec.item, codec.query)]
    /\ UNCHANGED <<state, nextId, now, last, modal>>

SearchNext == SearchMatch

SpecSearch == SearchInit /\ [][SearchNext]_vars

\* C34: matchItem(item, query) is true exactly when every token of the
\* query that starts with # names, ignoring case and a leading #, a tag of
\* the item, and every other token is, ignoring case, part of the item's
\* title (its sourceTitle when it has no title), of its url or of its
\* videoId; a query that is empty or blank matches every item.
C34_MatchesExactly ==
    codec.pc = "matched" =>
        LET item == codec.item
            words == splitWords(codec.query)
            shown == IF item.title \notin {UNDEF, <<>>} THEN item.title
                     ELSE IF item.sourceTitle \notin {UNDEF, <<>>} THEN item.sourceTitle
                     ELSE <<>>
            fields == {shown, item.url}
                      \cup (IF item.videoId = UNDEF THEN {} ELSE {item.videoId})
            carries(word) ==
                \E k \in 1..Len(item.tags) :
                    toLowerCase(stripHash(item.tags[k])) = toLowerCase(Tail(word))
            found(word) ==
                \E f \in fields : includes(toLowerCase(f), toLowerCase(word))
        IN /\ codec.matches <=>
                 \A i \in 1..Len(words) :
                     IF Head(words[i]) = "#" THEN carries(words[i])
                     ELSE found(words[i])
           /\ words = <<>> => codec.matches

\* a query of a tag and a text matched an item by its sourceTitle
C34_Witness ==
    /\ codec.pc = "matched"
    /\ codec.matches
    /\ codec.item.title = UNDEF
    /\ codec.item.videoId = UNDEF
    /\ codec.query = <<"#", "B", " ", "a">>

(***************************************************************************)
(* Deep links: the location of the page, the /share effect that turns a    *)
(* share-target request into a fragment, and handleHash, which opens the    *)
(* import modal or the add-video modal from the fragment.                    *)
(***************************************************************************)
HttpScheme == <<"h", "t", "t", "p", ":", "/", "/">>

\* text.match(/https?:\/\/[^\s]+/i)?.[0]
extractFirstUrl(text) ==
    LET low == toLowerCase(text)
        at(i, scheme) ==
            /\ startsWith(sliceFrom(low, i), scheme)
            /\ i + Len(scheme) <= Len(text)
            /\ text[i + Len(scheme)] \notin WhiteSpace
        hits == {i \in 1..Len(text) : at(i, HttpScheme) \/ at(i, HttpsScheme)}
        first == CHOOSE i \in hits : \A j \in hits : i <= j
        rest == sliceFrom(text, first)
        e == firstOf(rest, WhiteSpace)
    IN IF hits = {} THEN UNDEF
       ELSE IF e = 0 THEN rest
       ELSE SubSeq(rest, 1, e - 1)

endsWith(s, p) == Len(s) >= Len(p) /\ SubSeq(s, Len(s) - Len(p) + 1, Len(s)) = p

\* p.replace(/[^/]+$/, "")
RECURSIVE dropLastSegment(_)
dropLastSegment(p) ==
    IF p = <<>> \/ p[Len(p)] = "/" THEN p
    ELSE dropLastSegment(SubSeq(p, 1, Len(p) - 1))

getBasePath(pathname) ==
    IF endsWith(pathname, <<"/">>) THEN pathname
    ELSE IF endsWith(pathname, <<".", "h", "t", "m", "l">>) THEN dropLastSegment(pathname)
    ELSE pathname \o <<"/">>

\* URLSearchParams.get: the value of the first pair with the name, UNDEF
\* for null
paramsGet(pairs, name) ==
    LET hits == {i \in 1..Len(pairs) : pairs[i].name = name}
    IN IF hits = {} THEN UNDEF
       ELSE pairs[CHOOSE i \in hits : \A j \in hits : i <= j].value

\* URLSearchParams.delete: every pair with the name goes
paramsDelete(pairs, name) ==
    LET Other(p) == p.name # name
    IN SelectSeq(pairs, Other)

\* URLSearchParams.set: the first pair with the name takes the value and
\* the others go; a new pair at the end when there is none
paramsSet(pairs, name, value) ==
    LET hits == {i \in 1..Len(pairs) : pairs[i].name = name}
        first == CHOOSE i \in hits : \A j \in hits : i <= j
    IN IF hits = {} THEN Append(pairs, [name |-> name, value |-> value])
       ELSE SubSeq(pairs, 1, first - 1)
            \o <<[name |-> name, value |-> value]>>
            \o paramsDelete(SubSeq(pairs, first + 1, Len(pairs)), name)

parseHashPath(hash) ==
    LET noHash == IF startsWith(hash, <<"#">>) THEN Tail(hash) ELSE hash
        qIdx == indexOf(noHash, "?")
        path == IF qIdx = 0 THEN noHash ELSE SubSeq(noHash, 1, qIdx - 1)
    IN [path |-> IF path = <<>> THEN <<"/">> ELSE path,
        query |-> searchParams(IF qIdx = 0 THEN <<>> ELSE sliceFrom(noHash, qIdx + 1))]

ParamAdd == <<"a", "d", "d">>
ParamUrl == <<"u", "r", "l">>
ParamTitle == <<"t", "i", "t", "l", "e">>
ParamText == <<"t", "e", "x", "t">>
ParamD == <<"d">>
ImportPath == <<"/", "i", "m", "p", "o", "r", "t">>
SharePath == <<"/", "s", "h", "a", "r", "e">>

\* the value of hq.set(name, value) when the value is not empty
setIf(pairs, name, value) ==
    IF value # <<>> THEN paramsSet(pairs, name, value) ELSE pairs

\* the effect for /share: the location after it
shareEffect(loc) ==
    LET q == searchParams(loc.search)
        sharedUrl == Or(Or(paramsGet(q, ParamUrl),
                           extractFirstUrl(Or(paramsGet(q, ParamText), <<>>))), <<>>)
        title == Or(paramsGet(q, ParamTitle), <<>>)
        text == Or(paramsGet(q, ParamText), <<>>)
        hq == setIf(setIf(setIf(paramsSet(<<>>, ParamAdd, <<"1">>),
                                ParamUrl, sharedUrl), ParamTitle, title), ParamText, text)
    IN IF loc.pathname = SharePath
       THEN [pathname |-> getBasePath(loc.pathname), search |-> <<>>,
             hash |-> <<"#", "/", "?">> \o serializeParams(hq)]
       ELSE loc

\* leaves add as it is after opening the add-video modal
handleHash_keepAdd(loc) ==
    LET parsed == parseHashPath(loc.hash)
        query == parsed.query
        d == Or(paramsGet(query, ParamD), <<>>)
        restD == serializeParams(paramsDelete(query, ParamD))
        add == paramsGet(query, ParamAdd)
        url == Or(paramsGet(query, ParamUrl), <<>>)
        restAdd == serializeParams(query)
    IN IF parsed.path = ImportPath /\ d # <<>>
       THEN [modal |-> [type |-> "applyImport", encoded |-> d],
             loc |-> [pathname |-> getBasePath(loc.pathname), search |-> <<>>,
                      hash |-> IF restD # <<>> THEN <<"#">> \o ImportPath \o <<"?">> \o restD
                               ELSE <<"#">> \o ImportPath]]
       ELSE IF add = <<"1">> /\ url # <<>>
       THEN [modal |-> [type |-> "addVideo", presetUrl |-> url,
                        presetTitle |-> Or(paramsGet(query, ParamTitle), UNDEF),
                        presetText |-> Or(paramsGet(query, ParamText), UNDEF)],
             loc |-> [pathname |-> getBasePath(loc.pathname), search |-> <<>>,
                      hash |-> IF restAdd # <<>> THEN <<"#", "/", "?">> \o restAdd
                               ELSE <<"#", "/">>]]
       ELSE [modal |-> NoModal, loc |-> loc]

\* handleHash: the modal it sets (NoModal when it sets none) and the location
\* it leaves
handleHash(loc) ==
    LET parsed == parseHashPath(loc.hash)
        query == parsed.query
        d == Or(paramsGet(query, ParamD), <<>>)
        restD == serializeParams(paramsDelete(query, ParamD))
        add == paramsGet(query, ParamAdd)
        url == Or(paramsGet(query, ParamUrl), <<>>)
        restAdd == serializeParams(paramsSet(query, ParamAdd, <<"0">>))
    IN IF parsed.path = ImportPath /\ d # <<>>
       THEN [modal |-> [type |-> "applyImport", encoded |-> d],
             loc |-> [pathname |-> getBasePath(loc.pathname), search |-> <<>>,
                      hash |-> IF restD # <<>> THEN <<"#">> \o ImportPath \o <<"?">> \o restD
                               ELSE <<"#">> \o ImportPath]]
       ELSE IF add = <<"1">> /\ url # <<>>
       THEN [modal |-> [type |-> "addVideo", presetUrl |-> url,
                        presetTitle |-> Or(paramsGet(query, ParamTitle), UNDEF),
                        presetText |-> Or(paramsGet(query, ParamText), UNDEF)],
             loc |-> [pathname |-> getBasePath(loc.pathname), search |-> <<>>,
                      hash |-> IF restAdd # <<>> THEN <<"#", "/", "?">> \o restAdd
                               ELSE <<"#", "/">>]]
       ELSE [modal |-> NoModal, loc |-> loc]

\* the url the add-video modal shows for its presets
inferredUrl(m) ==
    Or(Or(m.presetUrl, extractFirstUrl(Or(m.presetText, <<>>))), <<>>)

\* the pairs of a fragment or of a share-target request, some names left out
pairOf(name, value) ==
    IF value = UNDEF THEN <<>> ELSE <<[name |-> name, value |-> value]>>

LinkUrls == {UNDEF, <<>>, <<"h", "t", "t", "p", ":", "/", "/", "u">>}
LinkTitles == {UNDEF, <<"T">>}
LinkTexts ==
    {UNDEF, <<"h", "i">>,
     <<"s", " ", "H", "t", "t", "p", "s", ":", "/", "/", "y", " ", "z">>}
LinkAdds == {UNDEF, <<"0">>, <<"1">>}
LinkTokens == {UNDEF, <<>>, <<"v", "1", ".", "Q">>}

linkQuery(d, add, url, title, text) ==
    serializeParams(pairOf(ParamD, d) \o pairOf(ParamAdd, add) \o pairOf(ParamUrl, url)
                    \o pairOf(ParamTitle, title) \o pairOf(ParamText, text))

\* where the page is opened: a fragment on the application's page, or a
\* share-target request to /share
Locations ==
    { [pathname |-> pathname, search |-> <<>>,
       hash |-> IF linkQuery(d, add, url, title, text) = <<>> THEN <<"#">> \o path
                ELSE <<"#">> \o path \o <<"?">> \o linkQuery(d, add, url, title, text)] :
        pathname \in {<<"/">>, <<"/", "i", ".", "h", "t", "m", "l">>},
        path \in {<<"/">>, ImportPath},
        d \in LinkTokens, add \in LinkAdds, url \in LinkUrls,
        title \in LinkTitles, text \in LinkTexts }
    \cup
    { [pathname |-> SharePath, search |-> linkQuery(UNDEF, UNDEF, url, title, text),
       hash |-> <<>>] :
        url \in LinkUrls, title \in LinkTitles, text \in LinkTexts }

HashInit ==
    /\ state = defaultState(1, 1)
    /\ codec \in {[pc |-> "loaded", loc |-> loc, consumed |-> {}] : loc \in Locations}
    /\ nextId = 2
    /\ now = 1
    /\ last = NoLast
    /\ modal = NoModal

\* the effect for /share, run once when the application mounts
HashShareEffect ==
    /\ codec.pc = "loaded"
    /\ codec' = [codec EXCEPT !.pc = "shared", !.loc = shareEffect(codec.loc)]
    /\ UNCHANGED <<state, nextId, now, last, modal>>

\* handleHash, at mount after the /share effect and at every hashchange
HashHandle ==
    /\ codec.pc \in {"shared", "mounted"}
    /\ LET r == handleHash(codec.loc)
           opened == r.modal.type
       IN /\ modal' = IF r.modal = NoModal THEN modal ELSE r.modal
          /\ codec' = [pc |-> "mounted", loc |-> r.loc,
                       consumed |-> codec.consumed
                                    \cup (IF r.modal = NoModal THEN {} ELSE {opened})]
          /\ last' = [op |-> "handleHash", before |-> codec.consumed,
                      from |-> codec.loc, opened |-> opened,
                      modal |-> r.modal, to |-> r.loc]
    /\ UNCHANGED <<state, nextId, now>>

\* the modal's onClose
HashClose ==
    /\ modal # NoModal
    /\ modal' = NoModal
    /\ UNCHANGED <<state, nextId, now, last, codec>>

HashNext == HashShareEffect \/ HashHandle \/ HashClose

SpecHash == HashInit /\ [][HashNext]_vars

\* C35: a fragment carrying add=1 opens the add-video modal, prefilled with
\* the video URL, whenever a URL is given in the url parameter or is the
\* first http(s) URL inside the text parameter, also when only text is
\* given
C35_AddIntentFromUrlOrText ==
    (last.op = "handleHash" /\ last.before = {}) =>
        LET parsed == parseHashPath(last.from.hash)
            given == Or(Or(paramsGet(parsed.query, ParamUrl),
                           extractFirstUrl(Or(paramsGet(parsed.query, ParamText), <<>>))),
                        <<>>)
        IN (/\ parsed.path = <<"/">>
            /\ paramsGet(parsed.query, ParamAdd) = <<"1">>
            /\ given # <<>>)
           => /\ last.opened = "addVideo"
              /\ inferredUrl(last.modal) = given

\* a share-target request that carried only text opened the add-video modal
C35_Witness ==
    /\ last.op = "handleHash"
    /\ last.opened = "addVideo"
    /\ paramsGet(parseHashPath(last.from.hash).query, ParamText) # UNDEF
    /\ last.modal.presetUrl = <<"H", "t", "t", "p", "s", ":", "/", "/", "y">>

\* C39 as stated: once handleHash has opened a modal, a later invocation
\* on the fragment it left opens no modal and changes nothing
C39_ConsumedOnceStated ==
    (last.op = "handleHash" /\ last.before # {}) =>
        /\ last.opened = "none"
        /\ last.to = last.from

\* C39: handleHash removes d when it opens the import modal and rewrites
\* add to 0 when it opens the add-video modal; a later invocation on the
\* fragment it left never opens the same modal again, opens no modal at all
\* once the add-video modal has been opened, and changes nothing when it
\* opens none
C39_EachLinkConsumedOnce ==
    last.op = "handleHash" =>
        LET left == parseHashPath(last.to.hash).query
        IN /\ last.opened \notin last.before
           /\ "addVideo" \in last.before => last.opened = "none"
           /\ last.opened = "none" => last.to = last.from
           /\ last.opened = "applyImport" => paramsGet(left, ParamD) = UNDEF
           /\ last.opened = "addVideo" => paramsGet(left, ParamAdd) = <<"0">>

\* handleHash ran again after the add-video modal was opened and closed, and
\* opened nothing
C39_Witness ==
    /\ last.op = "handleHash"
    /\ last.before = {"addVideo"}
    /\ last.opened = "none"
    /\ modal = NoModal
    /\ paramsGet(parseHashPath(codec.loc.hash).query, ParamAdd) = <<"0">>

\* the number of items in the collection
totalItems(s) ==
    LET RECURSIVE sum(_)
        sum(i) == IF i = 0 THEN 0 ELSE Len(s.playlists[i].items) + sum(i - 1)
    IN sum(Len(s.playlists))

\* the case of C36: a move between two distinct playlists of the state, of
\* an item the source holds, onto a destination that holds no item with the
\* item's dedup key
C36_Case ==
    /\ last.op = "moveVideo"
    /\ last.args.fromPlaylistId # last.args.toPlaylistId
    /\ last.args.fromPlaylistId \in PlaylistIds(last.pre)
    /\ last.args.toPlaylistId \in PlaylistIds(last.pre)
    /\ HoldsItem(playlistOf(last.pre, last.args.fromPlaylistId), last.args.videoItemId)
    /\ ~HoldsKey(playlistOf(last.pre, last.args.toPlaylistId),
                 dedupKey(itemOf(playlistOf(last.pre, last.args.fromPlaylistId),
                                 last.args.videoItemId)))

\* C36: moving an item between two distinct playlists, the destination
\* holding no item with its dedup key, puts the item, unchanged, first in
\* the destination and takes it out of the source; the other items of both
\* keep their order, every other playlist is unchanged and the collection
\* holds as many items as before.
C36_MovePutsItemFirst ==
    C36_Case =>
        LET from == playlistOf(last.pre, last.args.fromPlaylistId)
            to == playlistOf(last.pre, last.args.toPlaylistId)
            item == itemOf(from, last.args.videoItemId)
            NotIt(v) == v.id # last.args.videoItemId
        IN /\ Len(state.playlists) = Len(last.pre.playlists)
           /\ \A i \in 1..Len(state.playlists) :
                 LET was == last.pre.playlists[i]
                     is == state.playlists[i]
                 IN IF was.id = from.id
                    THEN is = [was EXCEPT !.items = SelectSeq(@, NotIt)]
                    ELSE IF was.id = to.id
                    THEN is = [was EXCEPT !.items = <<item>> \o @]
                    ELSE is = was
           /\ totalItems(state) = totalItems(last.pre)

(***************************************************************************)
(* Add-video requests pending together: each onAddVideo call awaits its     *)
(* lookup on its own, and the playlists can be created, deleted and edited  *)
(* while lookups are pending.  codec.requests are the calls awaiting their  *)
(* lookup.                                                                   *)
(***************************************************************************)
PendingMaxIds == 3   \* identifiers minted in one run of the pending-requests model
MaxPending == 2      \* add-video requests awaiting their lookup at once

\* falls back on the first playlist when the request's playlist is gone
settleAdd_fallback(latest, request, item) ==
    IF findIndex(latest.playlists, request.playlistId) = 0
    THEN addVideoToPlaylist(latest, latest.playlists[1].id, item).state
    ELSE addVideoToPlaylist(latest, request.playlistId, item).state

\* adds without looking for an item of the same dedup key
settleAdd_noDedup(latest, request, item) ==
    LET idx == findIndex(latest.playlists, request.playlistId)
    IN IF idx = 0 THEN latest
       ELSE [latest EXCEPT !.playlists[idx].items = <<item>> \o @]

\* setState((s) => addVideoToPlaylist(s, args.playlistId, item))
settleAdd(latest, request, item) ==
    addVideoToPlaylist(latest, request.playlistId, item).state

\* a pending request whose playlist is deleted, or whose video another
\* request adds, is marked
marked(requests, Hit(_), field, value) ==
    [i \in 1..Len(requests) |->
        IF Hit(requests[i]) THEN [requests[i] EXCEPT ![field] = value]
        ELSE requests[i]]

PendingInit ==
    /\ state = defaultState(1, 1)
    /\ nextId = 2
    /\ now = 1
    /\ last = NoLast
    /\ modal = NoModal
    /\ codec = [pc |-> "pending", requests |-> <<>>]

PendingCreatePlaylist ==
    /\ last = NoLast
    /\ nextId <= PendingMaxIds
    /\ Len(state.playlists) < AppMaxPlaylists
    /\ LET pl == mkPlaylist(newId("pl", nextId), NewListName, now, <<>>)
       IN state' = [upsertPlaylist(state, pl).state EXCEPT
                       !.selectedPlaylistId = pl.id]
    /\ nextId' = nextId + 1
    /\ UNCHANGED <<now, last, modal, codec>>

\* onDeletePlaylist; a request whose playlist goes is marked
PendingDeletePlaylist ==
    \E playlistId \in PlaylistIds(state) :
        /\ last = NoLast
        /\ deleteReseeds(state, playlistId) => nextId <= PendingMaxIds
        /\ state' = deletePlaylist(state, playlistId, nextId, now).state
        /\ nextId' = IF deleteReseeds(state, playlistId) THEN nextId + 1 ELSE nextId
        /\ LET Target(r) == r.playlistId = playlistId
           IN codec' = [codec EXCEPT !.requests =
                           marked(@, Target, "target",
                           IF deleteReseeds(state, playlistId) THEN "reseeded"
                           ELSE "deleted")]
        /\ UNCHANGED <<now, last, modal>>

\* the card's remove button
PendingRemove ==
    \E playlistId \in PlaylistIds(state), v \in ItemIds(state) :
        /\ last = NoLast
        /\ HoldsItem(playlistOf(state, playlistId), v)
        /\ state' = removeVideoFromPlaylist(state, playlistId, v).state
        /\ UNCHANGED <<nextId, now, last, modal, codec>>

\* the add button: onAddVideo runs up to its await
PendingSubmit ==
    \E playlistId \in PlaylistIds(state), normalized \in AppItemInputs :
        /\ last = NoLast
        /\ Len(codec.requests) < MaxPending
        /\ codec' = [codec EXCEPT !.requests =
                        Append(@, [playlistId |-> playlistId, normalized |-> normalized,
                                   target |-> "held", twinAdded |-> FALSE])]
        /\ UNCHANGED <<state, nextId, now, last, modal>>

\* the rest of one onAddVideo call once its lookup ended
PendingSettle ==
    \E i \in 1..Len(codec.requests), outcome \in LookupOutcomes :
        LET request == codec.requests[i]
            others == [k \in 1..(Len(codec.requests) - 1) |->
                          codec.requests[IF k < i THEN k ELSE k + 1]]
            meta == fetchYouTubeOEmbed(outcome)
            item == mkItem(newId("v", nextId), request.normalized.url,
                           request.normalized.videoId, meta.title,
                           meta.thumbnailUrl, UNDEF, <<>>, now)
            Twin(r) == /\ r.playlistId = request.playlistId
                       /\ r.normalized = request.normalized
        IN /\ last = NoLast
           /\ outcome # "rejected" => nextId <= PendingMaxIds
           /\ state' = IF outcome = "rejected" THEN state
                       ELSE settleAdd(state, request, item)
           /\ nextId' = IF outcome = "rejected" THEN nextId ELSE nextId + 1
           /\ codec' = [codec EXCEPT !.requests =
                           IF outcome = "rejected" THEN others
                           ELSE marked(others, Twin, "twinAdded", TRUE)]
           /\ last' \in {NoLast,
                         [op |-> "settle", pre |-> state, request |-> request,
                          outcome |-> outcome, item |-> item]}
           /\ UNCHANGED <<now, modal>>

PendingNext ==
    \/ PendingCreatePlaylist
    \/ PendingDeletePlaylist
    \/ PendingRemove
    \/ PendingSubmit
    \/ PendingSettle

SpecPending == PendingInit /\ [][PendingNext]_vars

\* C37: when the playlist an add-video request is for is deleted while the
\* lookup is pending, also by the delete that reseeds the collection, the
\* state after the lookup ended equals the state before: the item is in no
\* playlist and the deleted playlist is not back.
C37_DeletedTargetAddsNothing ==
    (last.op = "settle" /\ last.request.target # "held") =>
        /\ state = last.pre
        /\ last.request.playlistId \notin PlaylistIds(state)
        /\ last.item \notin ItemsOf(state)

\* the lookup answered for a request whose playlist was the last one and
\* was deleted meanwhile
C37_Witness ==
    /\ last.op = "settle"
    /\ last.outcome = "answered"
    /\ last.request.target = "reseeded"

\* the items of a playlist with the dedup key
itemsWithKey(pl, key) == {k \in 1..Len(pl.items) : dedupKey(pl.items[k]) = key}

\* C38: however add-video requests for one video and one playlist and the
\* other changes of the state interleave, a request that completes leaves
\* the playlist, when it still exists, with exactly one item of the video's
\* dedup key, and leaves everything else of the latest state as it was: the
\* state is the latest one, or the latest one with the new item first in
\* that playlist.
C38_OneItemNoLostUpdate ==
    (last.op = "settle" /\ last.outcome # "rejected") =>
        LET id == last.request.playlistId
            idx == findIndex(last.pre.playlists, id)
            key == dedupKey(last.item)
        IN IF idx = 0 THEN state = last.pre
           ELSE /\ Cardinality(itemsWithKey(playlistOf(state, id), key)) = 1
                /\ \/ state = last.pre
                   \/ state = [last.pre EXCEPT
                                  !.playlists[idx].items = <<last.item>> \o @]

\* the second of two requests for one video and one playlist that were
\* pending together completed, after the first had added the item and the
\* state had changed since the second was made
C38_Witness ==
    /\ last.op = "settle"
    /\ last.outcome = "answered"
    /\ state = last.pre
    /\ last.request.twinAdded

====
